---- MODULE Spec2Model ----
(***************************************************************************)
(* A model of the two pipelines of the repository:                         *)
(*   - the record generator, src/src/utils/generateFixedIncomeData.ts      *)
(*     (generateFixedIncomeData, generatePosition and the date helpers);   *)
(*   - the column inferencer, inferColumnDefs, in its two variants         *)
(*     (src/src/utils/generateFixedIncomeData.ts and                       *)
(*     src/src/utils/gridUtils.ts);                                        *)
(*   - the application shell, src/src/App.tsx, which requests generation   *)
(*     on mount and on the Generate Data button and holds the dataset.     *)
(*                                                                         *)
(* Numbers.  TLC has 32-bit integers and no floating point, so every       *)
(* number of a record is kept exactly as a scaled integer; the scale is    *)
(* given where the field is drawn.  faker.number.float draws an integer    *)
(* between ceil(min/precision) and floor(max/precision) and divides it by  *)
(* 1/precision, so a drawn float is the integer it was drawn as.           *)
(*                                                                         *)
(* Randomness.  Math.random() and faker's Mersenne Twister are             *)
(* deterministic generators whose only free input is the seed.  The model  *)
(* keeps that shape: each stream is a small linear congruential generator  *)
(* whose state x stands for the output x / RngModulus, the last state      *)
(* RngModulus - 1 standing for the largest output below 1.  The seeds are  *)
(* free in Init.                                                           *)
(***************************************************************************)
EXTENDS Integers, Sequences, FiniteSets, TLC

VARIABLES
    pc,          \* position of generateFixedIncomeData: idle, loop, done
    numRows,     \* its argument, in halves (numRows = 3 is the count 1.5)
    i,           \* its loop counter
    positions,   \* its local array
    result,      \* the array it returned
    outcome,     \* none, returned, threw, invalid-argument
    mathRng,     \* state of the Math.random() stream
    fakerRng,    \* state of faker's stream
    clock,       \* what new Date() reads, in ticks
    rowData,     \* inferColumnDefs: its argument
    colDefs,     \* inferColumnDefs: what it returned
    variant,     \* inferColumnDefs: which variant ran (none, generator, grid)
    dateEngine,  \* how the engine's Date.parse reads free text (strict, lenient)
    mounted,     \* App: the mount effect has run
    loading,     \* App: the loading state
    rowCount,    \* App: the rowCount state (the count the selector shows)
    heldRowData, \* App: the rowData state (the dataset the shell holds)
    disabled,    \* App: the button's disabled attribute, as last rendered
    timers,      \* App: the setTimeout callbacks not yet run, oldest first
    requests     \* App: the calls of generateData so far

vars == <<pc, numRows, i, positions, result, outcome, mathRng, fakerRng,
          clock, rowData, colDefs, variant, dateEngine,
          mounted, loading, rowCount, heldRowData, disabled, timers, requests>>

genVars == <<pc, numRows, i, positions, result, outcome, mathRng, fakerRng, clock>>
inferVars == <<rowData, colDefs, variant, dateEngine>>
appVars == <<mounted, loading, rowCount, heldRowData, disabled, timers, requests>>

----------------------------------------------------------------------------
(* Bounds of the model *)

\* largest whole count passed to the generator
MaxRows == 2
\* number of states of each random stream
RngModulus == 13
\* clock ticks per day (the resolution of new Date())
TicksPerDay == 2
\* most ticks the clock advances between two reads within one record
MaxClockStep == 1

----------------------------------------------------------------------------
(* Arithmetic helpers *)

Min(a, b) == IF a <= b THEN a ELSE b
Max(a, b) == IF a >= b THEN a ELSE b

\* Math.ceil(n / d) and Math.floor(n / d) for d > 0
Ceil(n, d) == -((-n) \div d)
Floor(n, d) == n \div d

----------------------------------------------------------------------------
(* The random streams *)

\* the next state of a stream
RngNext(x) == (2 * x + 3) % RngModulus

RECURSIVE RngNth(_, _)
\* the state of a stream after j draws
RngNth(x, j) == IF j = 0 THEN x ELSE RngNth(RngNext(x), j - 1)

\* Math.floor(r * n) for the output r that the state x stands for
ScaleFloor(x, n) ==
    IF x = RngModulus - 1
    THEN (IF n > 0 THEN n - 1 ELSE n)
    ELSE (x * n) \div RngModulus

----------------------------------------------------------------------------
(* faker (the @faker-js/faker library the generator calls) *)

\* faker.number.int({min, max}) on the stream state x: min when the range is
\* a single integer, else Math.floor(real * (max + 1 - min) + min)
FakerInt(min, max, x) ==
    IF min = max THEN min ELSE min + ScaleFloor(x, max + 1 - min)

\* Math.ceil and Math.floor of the double product n / d.  When the exact
\* product is an integer the IEEE-754 product may land an ulp above it
\* (err = 1), on it (err = 0) or an ulp below it (err = -1).
CeilE(n, d, err) ==
    IF n % d = 0 THEN (n \div d) + (IF err > 0 THEN 1 ELSE 0) ELSE Ceil(n, d)
FloorE(n, d, err) ==
    IF n % d = 0 THEN (n \div d) - (IF err < 0 THEN 1 ELSE 0) ELSE Floor(n, d)

\* faker.number.float({min, max, precision}) on the stream state x, where
\* min / precision = lo / den and max / precision = hi / den exactly: the
\* integer int({min: min * factor, max: max * factor}); the float returned is
\* that integer divided by factor = 1 / precision.
FakerFloat(lo, hi, den, err, x) ==
    FakerInt(CeilE(lo, den, err), FloorE(hi, den, err), x)

\* faker.number.float throws when max < min, faker.number.int when no
\* integer lies between its bounds
FloatThrows(lo, hi, den, err) ==
    hi < lo \/ (hi # lo /\ FloorE(hi, den, err) < CeilE(lo, den, err))

\* faker.datatype.boolean(p) with p = pNum / pDen: number.float() < p
FakerBoolean(pNum, pDen, x) ==
    x # RngModulus - 1 /\ x * pDen < pNum * RngModulus

\* faker.helpers.arrayElement(array)
ArrayElement(array, x) == array[1 + FakerInt(0, Len(array) - 1, x)]

----------------------------------------------------------------------------
(* The catalogs *)

instrumentTypes ==
    << "Government Bond", "Corporate Bond", "Municipal Bond", "Treasury Bill",
       "Treasury Note", "Treasury Bond", "Agency Bond", "Mortgage-Backed Security",
       "Asset-Backed Security", "Commercial Mortgage-Backed Security",
       "Collateralized Debt Obligation", "Covered Bond", "High-Yield Bond",
       "Investment-Grade Bond", "Inflation-Protected Security", "Zero-Coupon Bond",
       "Convertible Bond", "Callable Bond", "Putable Bond", "Floating Rate Note" >>

creditRatings ==
    << "AAA", "AA+", "AA", "AA-", "A+", "A", "A-",
       "BBB+", "BBB", "BBB-", "BB+", "BB", "BB-",
       "B+", "B", "B-", "CCC+", "CCC", "CCC-", "CC", "C", "D" >>

countries ==
    << "US", "UK", "DE", "FR", "JP", "CA", "IT", "CH", "AU", "ES",
       "NL", "SE", "NO", "DK", "FI", "SG", "HK", "KR", "BR", "MX",
       "ZA", "RU", "IN", "CN" >>

currencies ==
    << "USD", "EUR", "GBP", "JPY", "CHF", "CAD", "AUD", "NZD",
       "SEK", "NOK", "DKK", "BRL", "CNY", "HKD", "INR", "MXN",
       "SGD", "ZAR", "KRW", "RUB" >>

sectors ==
    << "Government", "Technology", "Healthcare", "Financials", "Consumer Discretionary",
       "Consumer Staples", "Industrials", "Energy", "Materials", "Utilities",
       "Telecommunications", "Real Estate", "Transportation", "Education", "Defense" >>

----------------------------------------------------------------------------
(* Dates.  An instant is a number of clock ticks; a year is 365 days. *)

YearTicks == 365 * TicksPerDay

\* the clock at the start of a run: late enough that "20 years ago" is positive
ClockStart == 40 * YearTicks

\* date.toISOString().split('T')[0]: the day an instant falls on
IsoDate(t) == t \div TicksPerDay

\* randomDate(start, end) on the Math.random() state x: new Date() truncates
\* start + Math.random() * (end - start) to a whole instant
randomDate(start, end, x) == start + ScaleFloor(x, end - start)

\* getRandomDate(), read at the instant now: between 20 years ago and now
getRandomDate(now, x) == randomDate(now - 20 * YearTicks, now, x)

\* mutant: the end of the range set 30 years back instead of 30 years on
getRandomFutureDateMutant(now, x) == randomDate(now, now - 30 * YearTicks, x)

\* getRandomFutureDate(), read at the instant now: between now and 30 years on
getRandomFutureDate(now, x) == randomDate(now, now + 30 * YearTicks, x)

\* null, and a value that is not null
Null == << >>
Some(v) == << v >>

----------------------------------------------------------------------------
(* generatePosition.  Scales of the drawn numbers:                         *)
(*   couponRate, ytm, yieldToWorst           thousandths of a percent point*)
(*   duration, spreadDuration, prices, valueatrisk95, expectedShortfall    *)
(*                                           hundredths                    *)
(*   faceValue, quantity                     units                         *)
(*   modifiedDuration                        the fraction num / den        *)
(*   macaulayDuration                        1e-7                          *)
(*   marketValue, unrealizedGainLoss, costBasis                            *)
(*       coef * 1e-8 * base * 1000, where base is                          *)
(*       (faceValue / 1000) * (quantity / 1000): the product itself does   *)
(*       not fit TLC's integers, so it is kept factored                    *)
(*   dates                                   IsoDate days                  *)

\* const faceValue = faker.number.int({ min: 1000, max: 1000000 }) * 1000
FaceValue(x) == FakerInt(1000, 1000000, x) * 1000

\* const couponRate = faker.number.float({ min: 0.5, max: 8, precision: 0.001 })
CouponRate(x) == FakerFloat(500, 8000, 1, 0, x)

\* const ytm = faker.number.float({ min: 0.1, max: 10, precision: 0.001 })
Ytm(x) == FakerFloat(100, 10000, 1, 0, x)

\* const duration = faker.number.float({ min: 0.1, max: 25, precision: 0.01 })
Duration(x) == FakerFloat(10, 2500, 1, 0, x)

\* 1 + ytm / 100, in units of 1e-5
OnePlusYtmPct(ytm) == 100000 + ytm

\* mutant: duration / (1 + ytm), the percent conversion forgotten
ModifiedDurationMutant(duration, ytm) ==
    [num |-> duration * 10, den |-> 1000 + ytm]

\* const modifiedDuration = duration / (1 + ytm / 100)
ModifiedDuration(duration, ytm) ==
    [num |-> duration * 1000, den |-> OnePlusYtmPct(ytm)]

\* macaulayDuration: duration * (1 + ytm / 100)
MacaulayDuration(duration, ytm) == duration * OnePlusYtmPct(ytm)

\* mutant: the draw starts at 0
QuantityMutant(x) == FakerInt(0, 1000, x) * 1000

\* const quantity = faker.number.int({ min: 1, max: 1000 }) * 1000
Quantity(x) == FakerInt(1, 1000, x) * 1000

\* const marketValue = faker.number.float({ min: 0.8, max: 1.2, precision: 0.0001 })
\*                     * faceValue * quantity / 1000
MarketValue(faceValue, quantity, x) ==
    [coef |-> FakerFloat(8000, 12000, 1, 0, x) * 10000,
     base |-> (faceValue \div 1000) * (quantity \div 1000)]

\* const unrealizedGainLoss = faker.number.float({ min: -0.1, max: 0.1,
\*                            precision: 0.0001 }) * marketValue
UnrealizedGainLoss(marketValue, x) ==
    [coef |-> FakerFloat(-1000, 1000, 1, 0, x) * (marketValue.coef \div 10000),
     base |-> marketValue.base]

\* mutant: marketValue + unrealizedGainLoss
CostBasisMutant(marketValue, unrealizedGainLoss) ==
    [coef |-> marketValue.coef + unrealizedGainLoss.coef,
     base |-> marketValue.base]

\* costBasis: marketValue - unrealizedGainLoss
CostBasis(marketValue, unrealizedGainLoss) ==
    [coef |-> marketValue.coef - unrealizedGainLoss.coef,
     base |-> marketValue.base]

\* mutant: the upper bound is ytm * 1.1
YieldToWorstMutant(ytm, err, x) == FakerFloat(ytm * 9, ytm * 11, 10, err, x)

\* const yieldToWorst = faker.number.float({ min: ytm * 0.9, max: ytm, precision: 0.001 })
YieldToWorst(ytm, err, x) == FakerFloat(ytm * 9, ytm * 10, 10, err, x)

\* const spreadDuration = faker.number.float({ min: duration * 0.7,
\*                        max: duration * 0.9, precision: 0.01 })
SpreadDuration(duration, err, x) == FakerFloat(duration * 7, duration * 9, 10, err, x)

\* const bidPrice = faker.number.float({ min: 95, max: 105, precision: 0.01 })
BidPrice(x) == FakerFloat(9500, 10500, 1, 0, x)

\* mutant: the lower bound rounded down instead of up
AskPriceMutant(bidPrice, err, x) ==
    FakerInt(FloorE(bidPrice * 100, 100, err), FloorE(bidPrice * 102, 100, err), x)

\* const askPrice = faker.number.float({ min: bidPrice, max: bidPrice * 1.02,
\*                  precision: 0.01 })
AskPrice(bidPrice, err, x) == FakerFloat(bidPrice * 100, bidPrice * 102, 100, err, x)

\* const bidAskSpread = askPrice - bidPrice
BidAskSpread(askPrice, bidPrice) == askPrice - bidPrice

\* const lastTradeDate = randomDate(new Date(year, month, date - 30), new Date())
LastTradeDate(now, x) ==
    randomDate((now \div TicksPerDay) * TicksPerDay - 30 * TicksPerDay, now, x)

\* const hasCallFeature = faker.datatype.boolean(0.3)
HasCallFeature(x) == FakerBoolean(3, 10, x)

\* const hasPutFeature = faker.datatype.boolean(0.15)
HasPutFeature(x) == FakerBoolean(15, 100, x)

\* const nextCallDate = hasCallFeature ? randomDate(new Date(), maturityDate) : null
\* nextCallDate: nextCallDate ? nextCallDate.toISOString().split('T')[0] : null
\* (and the same two lines for nextPutDate)
NextOptionDate(hasFeature, now, maturityDate, x) ==
    IF hasFeature THEN Some(IsoDate(randomDate(now, maturityDate, x))) ELSE Null

\* mutant: 0 instead of null without the call feature
CallPriceMutant(hasCallFeature, x) ==
    IF hasCallFeature THEN Some(FakerFloat(10000, 10500, 1, 0, x)) ELSE Some(0)

\* const callPrice = hasCallFeature
\*     ? faker.number.float({ min: 100, max: 105, precision: 0.01 }) : null
CallPrice(hasCallFeature, x) ==
    IF hasCallFeature THEN Some(FakerFloat(10000, 10500, 1, 0, x)) ELSE Null

\* const putPrice = hasPutFeature
\*     ? faker.number.float({ min: 95, max: 100, precision: 0.01 }) : null
PutPrice(hasPutFeature, x) ==
    IF hasPutFeature THEN Some(FakerFloat(9500, 10000, 1, 0, x)) ELSE Null

\* const valueatrisk95 = faker.number.float({ min: 0.5, max: 10, precision: 0.01 })
ValueAtRisk95(x) == FakerFloat(50, 1000, 1, 0, x)

\* const expectedShortfall = faker.number.float({ min: valueatrisk95,
\*                           max: valueatrisk95 * 1.5, precision: 0.01 })
ExpectedShortfall(valueatrisk95, err, x) ==
    FakerFloat(valueatrisk95 * 10, valueatrisk95 * 15, 10, err, x)

\* 1 when the flag holds, else 0
Bit(flag) == IF flag THEN 1 ELSE 0

\* The draws of one record from faker's stream, in the order of the code
\* (f is the state of the stream when generatePosition is entered):
\*   1 faceValue  2 couponRate  3 ytm  4 instrumentType  5 currency  6 country
\*   7 creditRating  8 duration  9 quantity  10 marketValue
\*   11 unrealizedGainLoss  12 sector  13 yieldToWorst  14 spreadDuration
\*   15 bidPrice  16 askPrice  17 hasCallFeature  18 hasPutFeature
\*   then callPrice (drawn only with the call feature), putPrice (only with
\*   the put feature), valueatrisk95, expectedShortfall.
\* The draws from Math.random():
\*   1 issueDate  2 maturityDate  3 lastTradeDate
\*   then nextCallDate and nextPutDate (drawn only with their feature).
FakerDraws(f) ==
    20 + Bit(HasCallFeature(RngNth(f, 17))) + Bit(HasPutFeature(RngNth(f, 18)))
MathDraws(f) ==
    3 + Bit(HasCallFeature(RngNth(f, 17))) + Bit(HasPutFeature(RngNth(f, 18)))

\* generatePosition(id), entered at the instant now with the streams in the
\* states m (Math.random) and f (faker); the clock advances by dt between
\* the read of getRandomDate() and the later reads; err is the direction of
\* the floating-point error in the bounds computed from other fields.
generatePosition(id, now, dt, err, m, f) ==
    LET later == now + dt
        issueDate == getRandomDate(now, RngNth(m, 1))
        maturityDate == getRandomFutureDate(later, RngNth(m, 2))
        faceValue == FaceValue(RngNth(f, 1))
        couponRate == CouponRate(RngNth(f, 2))
        ytm == Ytm(RngNth(f, 3))
        instrumentType == ArrayElement(instrumentTypes, RngNth(f, 4))
        currency == ArrayElement(currencies, RngNth(f, 5))
        country == ArrayElement(countries, RngNth(f, 6))
        creditRating == ArrayElement(creditRatings, RngNth(f, 7))
        duration == Duration(RngNth(f, 8))
        modifiedDuration == ModifiedDuration(duration, ytm)
        quantity == Quantity(RngNth(f, 9))
        marketValue == MarketValue(faceValue, quantity, RngNth(f, 10))
        unrealizedGainLoss == UnrealizedGainLoss(marketValue, RngNth(f, 11))
        sector == ArrayElement(sectors, RngNth(f, 12))
        yieldToWorst == YieldToWorst(ytm, err, RngNth(f, 13))
        spreadDuration == SpreadDuration(duration, err, RngNth(f, 14))
        bidPrice == BidPrice(RngNth(f, 15))
        askPrice == AskPrice(bidPrice, err, RngNth(f, 16))
        bidAskSpread == BidAskSpread(askPrice, bidPrice)
        lastTradeDate == LastTradeDate(later, RngNth(m, 3))
        issuerCountry == country
        issuerIndustry == sector
        hasCallFeature == HasCallFeature(RngNth(f, 17))
        hasPutFeature == HasPutFeature(RngNth(f, 18))
        nextCallDate ==
            NextOptionDate(hasCallFeature, later, maturityDate, RngNth(m, 4))
        nextPutDate ==
            NextOptionDate(hasPutFeature, later, maturityDate,
                           RngNth(m, 4 + Bit(hasCallFeature)))
        callPrice == CallPrice(hasCallFeature, RngNth(f, 19))
        putPrice == PutPrice(hasPutFeature, RngNth(f, 19 + Bit(hasCallFeature)))
        valueatrisk95 == ValueAtRisk95(RngNth(f, FakerDraws(f) - 1))
        expectedShortfall == ExpectedShortfall(valueatrisk95, err, RngNth(f, FakerDraws(f)))
    IN  [ id |-> id,
          instrumentType |-> instrumentType,
          issueDate |-> IsoDate(issueDate),
          maturityDate |-> IsoDate(maturityDate),
          faceValue |-> faceValue,
          couponRate |-> couponRate,
          ytm |-> ytm,
          currency |-> currency,
          country |-> country,
          creditRating |-> creditRating,
          duration |-> duration,
          modifiedDuration |-> modifiedDuration,
          quantity |-> quantity,
          marketValue |-> marketValue,
          unrealizedGainLoss |-> unrealizedGainLoss,
          costBasis |-> CostBasis(marketValue, unrealizedGainLoss),
          sector |-> sector,
          yieldToWorst |-> yieldToWorst,
          spreadDuration |-> spreadDuration,
          bidPrice |-> bidPrice,
          askPrice |-> askPrice,
          bidAskSpread |-> bidAskSpread,
          lastTradeDate |-> IsoDate(lastTradeDate),
          issuerCountry |-> issuerCountry,
          issuerIndustry |-> issuerIndustry,
          hasCallFeature |-> hasCallFeature,
          hasPutFeature |-> hasPutFeature,
          nextCallDate |-> nextCallDate,
          nextPutDate |-> nextPutDate,
          callPrice |-> callPrice,
          putPrice |-> putPrice,
          valueatrisk95 |-> valueatrisk95,
          expectedShortfall |-> expectedShortfall,
          tradeDate |-> IsoDate(lastTradeDate),
          macaulayDuration |-> MacaulayDuration(duration, ytm) ]

\* generatePosition throws when one of its faker.number.float calls does
PositionThrows(err, f) ==
    LET ytm == Ytm(RngNth(f, 3))
        duration == Duration(RngNth(f, 8))
        bidPrice == BidPrice(RngNth(f, 15))
        valueatrisk95 == ValueAtRisk95(RngNth(f, FakerDraws(f) - 1))
    IN  \/ FloatThrows(ytm * 9, ytm * 10, 10, err)
        \/ FloatThrows(duration * 7, duration * 9, 10, err)
        \/ FloatThrows(bidPrice * 100, bidPrice * 102, 100, err)
        \/ FloatThrows(valueatrisk95 * 10, valueatrisk95 * 15, 10, err)

----------------------------------------------------------------------------
(* generateFixedIncomeData *)

\* the counts the model passes, in halves: -1, -0.5, 0, 0.5, ..., MaxRows + 0.5
Counts == (-2) .. (2 * MaxRows + 1)

\* mutant: the loop test written i < numRows
LoopTestMutant(k, n) == 2 * k < n

\* the loop test i <= numRows, numRows in halves
LoopTest(k, n) == 2 * k <= n

\* a caller passes numRows: const positions = []; let i = 1
Call(count) ==
    /\ pc = "idle"
    /\ pc' = "loop"
    /\ numRows' = count
    /\ positions' = << >>
    /\ i' = 1
    /\ UNCHANGED <<result, outcome, mathRng, fakerRng, clock>>
    /\ UNCHANGED inferVars
    /\ UNCHANGED appVars

\* mutant: the id taken from the array's length before the push (0-based)
PushPositionMutant(ps, k, now, dt, err, m, f) ==
    Append(ps, generatePosition(Len(ps), now, dt, err, m, f))

\* positions.push(generatePosition(i))
PushPosition(ps, k, now, dt, err, m, f) ==
    Append(ps, generatePosition(k, now, dt, err, m, f))

\* one turn of the loop: positions.push(generatePosition(i)); i++
LoopBody ==
    /\ pc = "loop"
    /\ LoopTest(i, numRows)
    /\ \E dt \in 0 .. MaxClockStep, err \in -1 .. 1 :
          /\ clock' = clock + dt
          /\ IF PositionThrows(err, fakerRng)
             THEN /\ pc' = "done"
                  /\ outcome' = "threw"
                  /\ UNCHANGED <<positions, i>>
             ELSE /\ positions' =
                        PushPosition(positions, i, clock, dt, err, mathRng, fakerRng)
                  /\ i' = i + 1
                  /\ UNCHANGED <<pc, outcome>>
    /\ mathRng' = RngNth(mathRng, MathDraws(fakerRng))
    /\ fakerRng' = RngNth(fakerRng, FakerDraws(fakerRng))
    /\ UNCHANGED <<numRows, result>>
    /\ UNCHANGED inferVars
    /\ UNCHANGED appVars

\* the loop test fails: return positions
Return ==
    /\ pc = "loop"
    /\ ~LoopTest(i, numRows)
    /\ pc' = "done"
    /\ result' = positions
    /\ outcome' = "returned"
    /\ UNCHANGED <<numRows, i, positions, mathRng, fakerRng, clock>>
    /\ UNCHANGED inferVars
    /\ UNCHANGED appVars

\* the counts of the selector: 1 and 2 stand for 100, 1000, 5000 and 10000
RowOptions == {1, 2}

\* useState(10000): the largest count of the selector
InitialRowCount == CHOOSE count \in RowOptions : \A other \in RowOptions : other <= count

\* App before it is mounted: useState([]), useState(false), useState(10000)
AppInit ==
    /\ mounted = FALSE
    /\ loading = FALSE
    /\ rowCount = InitialRowCount
    /\ heldRowData = << >>
    /\ disabled = FALSE
    /\ timers = << >>
    /\ requests = 0

Init ==
    /\ AppInit
    /\ pc = "idle"
    /\ numRows = 0
    /\ i = 0
    /\ positions = << >>
    /\ result = << >>
    /\ outcome = "none"
    /\ mathRng \in 0 .. RngModulus - 1
    /\ fakerRng \in 0 .. RngModulus - 1
    /\ clock = ClockStart
    /\ rowData = [kind |-> "array", items |-> << >>]
    /\ colDefs = << >>
    /\ variant = "none"
    /\ dateEngine = "strict"

Next ==
    \/ \E count \in Counts : Call(count)
    \/ LoopBody
    \/ Return

Spec == Init /\ [][Next]_vars

----------------------------------------------------------------------------
(* Strings.  A string is a TLC string; its k-th character is SubSeq(s, k, k). *)

CharAt(s, k) == SubSeq(s, k, k)

LowerLetters == "abcdefghijklmnopqrstuvwxyz"
UpperLetters == "ABCDEFGHIJKLMNOPQRSTUVWXYZ"
Digits == "0123456789"

\* the position of the character c in the string alphabet, 0 when absent
IndexIn(c, alphabet) ==
    IF \E k \in 1 .. Len(alphabet) : CharAt(alphabet, k) = c
    THEN CHOOSE k \in 1 .. Len(alphabet) : CharAt(alphabet, k) = c
    ELSE 0

\* the character classes of the regular expressions: \d, [A-Z], \w, \s
IsDigit(c) == IndexIn(c, Digits) > 0
IsUpper(c) == IndexIn(c, UpperLetters) > 0
IsLower(c) == IndexIn(c, LowerLetters) > 0
IsWordChar(c) == IsDigit(c) \/ IsUpper(c) \/ IsLower(c) \/ c = "_"
IsSpace(c) == c = " " \/ c = "\t" \/ c = "\n" \/ c = "\r"

\* the value of a digit
DigitValue(c) == IndexIn(c, Digits) - 1

\* every character of s from position a to position b is a digit
AllDigits(s, a, b) == \A k \in a .. b : IsDigit(CharAt(s, k))

\* c.toUpperCase() and c.toLowerCase() on one character
ToUpperChar(c) == IF IsLower(c) THEN CharAt(UpperLetters, IndexIn(c, LowerLetters)) ELSE c
ToLowerChar(c) == IF IsUpper(c) THEN CharAt(LowerLetters, IndexIn(c, UpperLetters)) ELSE c

RECURSIVE ToLowerCase(_)
\* s.toLowerCase()
ToLowerCase(s) ==
    IF Len(s) = 0 THEN ""
    ELSE ToLowerChar(CharAt(s, 1)) \o ToLowerCase(SubSeq(s, 2, Len(s)))

\* s.includes(sub)
Includes(s, sub) ==
    \E k \in 1 .. Len(s) - Len(sub) + 1 : SubSeq(s, k, k + Len(sub) - 1) = sub

\* s.startsWith(sub)
StartsWith(s, sub) == Len(s) >= Len(sub) /\ SubSeq(s, 1, Len(sub)) = sub

\* hints.some(hint => field.toLowerCase().includes(hint))
NameHints(field, hints) ==
    LET fieldLower == ToLowerCase(field)
    IN  \E h \in hints : Includes(fieldLower, h)

RECURSIVE TrimStart(_)
\* s with its leading whitespace removed
TrimStart(s) ==
    IF Len(s) > 0 /\ IsSpace(CharAt(s, 1)) THEN TrimStart(SubSeq(s, 2, Len(s))) ELSE s

RECURSIVE TrimEnd(_)
\* s with its trailing whitespace removed
TrimEnd(s) ==
    IF Len(s) > 0 /\ IsSpace(CharAt(s, Len(s))) THEN TrimEnd(SubSeq(s, 1, Len(s) - 1)) ELSE s

\* s.trim()
Trim(s) == TrimEnd(TrimStart(s))

----------------------------------------------------------------------------
(* Header names *)

RECURSIVE ReplaceUnderscores(_)
\* s.replace(/_/g, ' ')
ReplaceUnderscores(s) ==
    IF Len(s) = 0 THEN ""
    ELSE (IF CharAt(s, 1) = "_" THEN " " ELSE CharAt(s, 1))
         \o ReplaceUnderscores(SubSeq(s, 2, Len(s)))

RECURSIVE SpaceBeforeUpper(_)
\* s.replace(/([A-Z])/g, ' $1')
SpaceBeforeUpper(s) ==
    IF Len(s) = 0 THEN ""
    ELSE (IF IsUpper(CharAt(s, 1)) THEN " " \o CharAt(s, 1) ELSE CharAt(s, 1))
         \o SpaceBeforeUpper(SubSeq(s, 2, Len(s)))

\* s.replace(/^\w/, c => c.toUpperCase())
CapitalizeFirstWordChar(s) ==
    IF Len(s) > 0 /\ IsWordChar(CharAt(s, 1))
    THEN ToUpperChar(CharAt(s, 1)) \o SubSeq(s, 2, Len(s))
    ELSE s

RECURSIVE CollapseSpaces(_)
\* s.replace(/\s+/g, ' ')
CollapseSpaces(s) ==
    IF Len(s) = 0 THEN ""
    ELSE IF IsSpace(CharAt(s, 1))
         THEN " " \o CollapseSpaces(TrimStart(s))
         ELSE CharAt(s, 1) \o CollapseSpaces(SubSeq(s, 2, Len(s)))

\* formatHeaderName(field), of the generator file's inferencer
formatHeaderName(field) ==
    Trim(CollapseSpaces(CapitalizeFirstWordChar(SpaceBeforeUpper(ReplaceUnderscores(field)))))

\* the headerName of the grid utilities' inferencer:
\* field.charAt(0).toUpperCase() + field.slice(1).replace(/([A-Z])/g, ' $1').trim()
GridHeaderName(field) ==
    (IF Len(field) = 0 THEN "" ELSE ToUpperChar(CharAt(field, 1)))
    \o Trim(SpaceBeforeUpper(SubSeq(field, 2, Len(field))))

----------------------------------------------------------------------------
(* What the inferencer asks of a string *)

RECURSIVE DigitRun(_, _)
\* the number of consecutive digits of s from position k on
DigitRun(s, k) ==
    IF k <= Len(s) /\ IsDigit(CharAt(s, k)) THEN 1 + DigitRun(s, k + 1) ELSE 0

\* u is a decimal literal without sign: digits, an optional fraction and an
\* optional exponent, with a digit before or after the point
IsUnsignedDecimal(u) ==
    LET ip == DigitRun(u, 1)
        hasPoint == ip < Len(u) /\ CharAt(u, ip + 1) = "."
        fp == IF hasPoint THEN DigitRun(u, ip + 2) ELSE 0
        mant == ip + (IF hasPoint THEN 1 + fp ELSE 0)
        hasExp == mant < Len(u) /\ CharAt(u, mant + 1) \in {"e", "E"}
        signed == hasExp /\ mant + 1 < Len(u) /\ CharAt(u, mant + 2) \in {"+", "-"}
        expFrom == mant + (IF signed THEN 3 ELSE 2)
        ep == IF hasExp THEN DigitRun(u, expFrom) ELSE 0
    IN  /\ ip + fp >= 1
        /\ IF hasExp THEN ep >= 1 /\ expFrom + ep - 1 = Len(u) ELSE mant = Len(u)

\* the string without the sign it may start with
Unsigned(t) ==
    IF Len(t) > 0 /\ CharAt(t, 1) \in {"+", "-"} THEN SubSeq(t, 2, Len(t)) ELSE t

\* !isNaN(Number(s)) for a string s: surrounding whitespace is dropped, the
\* empty string is 0, and otherwise s must be a signed decimal literal or a
\* signed Infinity.  (Literals with a radix prefix, 0x.. 0o.. 0b.., are numbers
\* too; the model draws no such string.)
IsNumericString(s) ==
    LET t == Trim(s)
    IN  \/ t = ""
        \/ Unsigned(t) = "Infinity"
        \/ IsUnsignedDecimal(Unsigned(t))

RECURSIVE DigitsValue(_, _, _)
\* the value of the digits of s from position a to position b, capped at 1000
DigitsValue(s, a, b) ==
    IF a > b THEN 0
    ELSE Min(1000, DigitsValue(s, a, b - 1) * 10 + DigitValue(CharAt(s, b)))

\* Number(s) > 1 for a string s that is a plain decimal literal (no exponent)
DecimalExceedsOne(s) ==
    LET t == Trim(s)
        u == Unsigned(t)
        ip == DigitRun(u, 1)
        fp == IF ip < Len(u) /\ CharAt(u, ip + 1) = "." THEN DigitRun(u, ip + 2) ELSE 0
        whole == DigitsValue(u, 1, ip)
        frac == \E k \in ip + 2 .. ip + 1 + fp : CharAt(u, k) # "0"
    IN  /\ Len(t) > 0 /\ CharAt(t, 1) # "-"
        /\ IF u = "Infinity" THEN TRUE
           ELSE IsUnsignedDecimal(u) /\ (whole > 1 \/ (whole = 1 /\ frac))

\* /^\d{4}-\d{2}-\d{2}/ : what /^\d{4}-\d{2}-\d{2}(T\d{2}:\d{2}:\d{2})?/ matches,
\* its optional group never deciding the match
MatchesIsoDatePrefix(s) ==
    /\ Len(s) >= 10
    /\ AllDigits(s, 1, 4) /\ CharAt(s, 5) = "-"
    /\ AllDigits(s, 6, 7) /\ CharAt(s, 8) = "-"
    /\ AllDigits(s, 9, 10)

\* /^\d{4}-\d{2}-\d{2}$/
MatchesIsoDateOnly(s) == Len(s) = 10 /\ MatchesIsoDatePrefix(s)

\* /^\d{4}-\d{2}-\d{2}T\d{2}:\d{2}:\d{2}/
MatchesIsoDateTimePrefix(s) ==
    /\ Len(s) >= 19 /\ MatchesIsoDatePrefix(s)
    /\ CharAt(s, 11) = "T"
    /\ AllDigits(s, 12, 13) /\ CharAt(s, 14) = ":"
    /\ AllDigits(s, 15, 16) /\ CharAt(s, 17) = ":"
    /\ AllDigits(s, 18, 19)

\* /^\d{1,2}\/\d{1,2}\/\d{4}$/
MatchesSlashDate(s) ==
    LET a == DigitRun(s, 1)
        b == DigitRun(s, a + 2)
    IN  /\ a \in 1 .. 2
        /\ a < Len(s) /\ CharAt(s, a + 1) = "/"
        /\ b \in 1 .. 2
        /\ a + 1 + b < Len(s) /\ CharAt(s, a + b + 2) = "/"
        /\ DigitRun(s, a + b + 3) = 4
        /\ Len(s) = a + b + 6

\* the names of the months, as Date.parse reads them
MonthNames ==
    {"jan", "feb", "mar", "apr", "may", "jun", "jul", "aug", "sep", "oct", "nov", "dec"}

\* !isNaN(new Date(s).getTime()) for a string s that neither regular
\* expression above matched.  Outside the ISO format Date.parse is
\* implementation-defined: every engine reads "March 7, 2020" (a month name,
\* then day and year); a lenient engine (V8) also reads any string that ends
\* in a number after words it skips ("Bond 2030") and a bare number ("5"),
\* which a strict engine rejects.
DateParses(s, engine) ==
    LET t == ToLowerCase(Trim(s))
        endsInNumber == Len(t) > 0 /\ IsDigit(CharAt(t, Len(t)))
        plain == \A k \in 1 .. Len(t) :
                    LET c == CharAt(t, k) IN IsDigit(c) \/ IsLower(c) \/ c = " " \/ c = ","
    IN  /\ plain /\ endsInNumber
        /\ \/ (Len(t) >= 3 /\ SubSeq(t, 1, 3) \in MonthNames)
           \/ engine = "lenient"

\* /^[^\s@]+@[^\s@]+\.[^\s@]+$/ : no whitespace, one @ with something before
\* it, and after it a point with something on both sides
MatchesEmail(s) ==
    /\ \A k \in 1 .. Len(s) : ~IsSpace(CharAt(s, k))
    /\ Cardinality({k \in 1 .. Len(s) : CharAt(s, k) = "@"}) = 1
    /\ LET at == CHOOSE k \in 1 .. Len(s) : CharAt(s, k) = "@"
       IN  /\ at > 1
           /\ \E d \in at + 2 .. Len(s) - 1 : CharAt(s, d) = "."

\* /^(https?:\/\/|www\.)[^\s$.?#].[^\s]*$/i
MatchesUrl(s) ==
    LET t == ToLowerCase(s)
        pre == IF StartsWith(t, "https://") THEN 8
               ELSE IF StartsWith(t, "http://") THEN 7
               ELSE IF StartsWith(t, "www.") THEN 4
               ELSE 0
    IN  /\ pre > 0
        /\ Len(s) >= pre + 2
        /\ LET c == CharAt(s, pre + 1)
           IN  ~IsSpace(c) /\ c \notin {"$", ".", "?", "#"}
        /\ CharAt(s, pre + 2) # "\n"
        /\ \A k \in pre + 3 .. Len(s) : ~IsSpace(CharAt(s, k))

----------------------------------------------------------------------------
(* Values and rows of the inferencer's input.                              *)
(* A value is [t, s]: t is what typeof, Array.isArray and instanceof Date   *)
(* tell of it, s is String(value) (for a number, its decimal literal).      *)
(* A row is the sequence of its [k, v] entries in key order, as             *)
(* Object.keys lists them.                                                  *)

Bool(b) == [t |-> "boolean", s |-> IF b THEN "true" ELSE "false"]
Num(lit) == [t |-> "number", s |-> lit]
Str(str) == [t |-> "string", s |-> str]
DateObj(str) == [t |-> "date", s |-> str]
Arr(str) == [t |-> "array", s |-> str]
Obj == [t |-> "object", s |-> "[object Object]"]
NullValue == [t |-> "null", s |-> "null"]
Undefined == [t |-> "undefined", s |-> "undefined"]

\* Object.keys(item)
Keys(item) == [j \in 1 .. Len(item) |-> item[j].k]

\* item[field]
Lookup(item, field) ==
    IF \E j \in 1 .. Len(item) : item[j].k = field
    THEN item[CHOOSE j \in 1 .. Len(item) : item[j].k = field].v
    ELSE Undefined

\* the elements of a sequence
Range(seq) == {seq[j] : j \in 1 .. Len(seq)}

\* keys.forEach(key => allKeys.add(key)): a Set keeps insertion order, so
\* the keys that are new follow, each at the place of its first occurrence
AddAll(allKeys, keys) ==
    LET fresh == {j \in 1 .. Len(keys) :
                     /\ keys[j] \notin Range(allKeys)
                     /\ \A h \in 1 .. j - 1 : keys[h] # keys[j]}
        nth(m) == CHOOSE j \in fresh : Cardinality({h \in fresh : h <= j}) = m
    IN  allKeys \o [m \in 1 .. Cardinality(fresh) |-> keys[nth(m)]]

\* mutant: only the first sampled row's keys are collected
AllKeysMutant(allKeys, sample) ==
    IF Len(sample) = 0 THEN allKeys ELSE AddAll(allKeys, Keys(Head(sample)))

RECURSIVE AllKeys(_, _)
\* sample.forEach(item => Object.keys(item).forEach(key => allKeys.add(key)))
AllKeys(allKeys, sample) ==
    IF Len(sample) = 0 THEN allKeys
    ELSE AllKeys(AddAll(allKeys, Keys(Head(sample))), Tail(sample))

\* array.filter(keep), keep given as the set of values kept
RECURSIVE Filter(_, _)
Filter(seq, keep) ==
    IF Len(seq) = 0 THEN << >>
    ELSE (IF Head(seq) \in keep THEN << Head(seq) >> ELSE << >>) \o Filter(Tail(seq), keep)

\* sample.map(item => item[field]).filter(val => val !== null && val !== undefined)
FieldValues(sample, field) ==
    LET all == [j \in 1 .. Len(sample) |-> Lookup(sample[j], field)]
    IN  Filter(all, Range(all) \ {NullValue, Undefined})

\* [...new Set(values.map(v => String(v)))]
UniqueStrings(values) == AddAll(<< >>, [j \in 1 .. Len(values) |-> values[j].s])

----------------------------------------------------------------------------
(* inferFieldType and its predicates *)

\* mutant: the strings "true" and "false" do not count
AllBooleanMutant(values) == \A v \in Range(values) : v.t = "boolean"

\* values.every(v => typeof v === 'boolean' || v === 'true' || v === 'false')
AllBoolean(values) ==
    \A v \in Range(values) :
        v.t = "boolean" \/ (v.t = "string" /\ v.s \in {"true", "false"})

\* values.every(v => typeof v === 'number' ||
\*                   (typeof v === 'string' && !isNaN(Number(v))))
AllNumeric(values) ==
    \A v \in Range(values) :
        v.t = "number" \/ (v.t = "string" /\ IsNumericString(v.s))

\* mutant: the name is not looked at
isDateFieldMutant(field, values, engine) ==
    \E v \in Range(values) :
        \/ v.t = "date"
        \/ /\ v.t = "string"
           /\ \/ MatchesIsoDatePrefix(v.s)
              \/ MatchesSlashDate(v.s)
              \/ DateParses(v.s, engine)

\* isDateField(field, values)
isDateField(field, values, engine) ==
    \/ NameHints(field, {"date", "time", "created", "updated", "timestamp", "birthday", "dob"})
    \/ \E v \in Range(values) :
          \/ v.t = "date"
          \/ /\ v.t = "string"
             /\ \/ MatchesIsoDatePrefix(v.s)
                \/ MatchesSlashDate(v.s)
                \/ DateParses(v.s, engine)

\* isEmailField(field, values)
isEmailField(field, values) ==
    \/ NameHints(field, {"email", "e-mail", "mail"})
    \/ \E v \in Range(values) : v.t = "string" /\ MatchesEmail(v.s)

\* isUrlField(field, values)
isUrlField(field, values) ==
    \/ NameHints(field, {"url", "link", "website", "site", "web"})
    \/ \E v \in Range(values) : v.t = "string" /\ MatchesUrl(v.s)

\* mutant: no cap on the number of distinct values
isEnumFieldMutant(values) ==
    LET size == Len(UniqueStrings(values))
    IN  size * 2 < Len(values)

\* isEnumField(values)
isEnumField(values) ==
    LET size == Len(UniqueStrings(values))
    IN  size <= 10 /\ size * 2 < Len(values)

\* Math.max(...values) > 1, the values being numbers and numeric strings
\* (the maximum is NaN, and the test false, when a value is NaN)
MaxExceedsOne(values) ==
    /\ \A v \in Range(values) : v.s # "NaN"
    /\ \E v \in Range(values) : DecimalExceedsOne(v.s)

\* the divisor of the percentage formatter
PercentDivisor(values) == IF MaxExceedsOne(values) THEN 1 ELSE 100

\* mutant: the percentage keywords are tested before the currency keywords
inferNumberFormattingMutant(field, values) ==
    IF NameHints(field, {"rate", "percent", "yield", "ratio"})
    THEN [valueFormatter |->
              IF PercentDivisor(values) = 1 THEN "percent/1" ELSE "percent/100"]
    ELSE IF NameHints(field, {"price", "amount", "value", "cost", "salary", "budget"})
         THEN [valueFormatter |-> "currency"]
         ELSE [valueFormatter |-> "decimal"]

\* inferNumberFormatting(field, values); a formatter is named by what it
\* formats to: currency, percent/<divisor>, decimal
inferNumberFormatting(field, values) ==
    IF NameHints(field, {"price", "amount", "value", "cost", "salary", "budget"})
    THEN [valueFormatter |-> "currency"]
    ELSE IF NameHints(field, {"rate", "percent", "yield", "ratio"})
         THEN [valueFormatter |->
                   IF PercentDivisor(values) = 1 THEN "percent/1" ELSE "percent/100"]
         ELSE [valueFormatter |-> "decimal"]

\* mutant: the date test comes before the number test
\* mutant: an array is seen only where no plain object is sampled with it
SomeArrayMutant(values) ==
    /\ \E v \in Range(values) : v.t = "array"
    /\ ~\E v \in Range(values) : v.t \in {"object", "date"}

\* values.some(v => Array.isArray(v))
SomeArray(values) == \E v \in Range(values) : v.t = "array"

\* values.some(v => typeof v === 'object' && v !== null && !Array.isArray(v))
SomeObject(values) == \E v \in Range(values) : v.t \in {"object", "date"}

inferFieldTypeMutant(field, values, engine) ==
    IF AllBoolean(values)
    THEN [filter |-> "agSetColumnFilter",
          colDef |-> [cellRenderer |-> "agCheckboxCellRenderer",
                      cellEditor |-> "agCheckboxCellEditor",
                      cellEditorParams |-> [useFormatter |-> TRUE]]]
    ELSE IF isDateField(field, values, engine)
    THEN [filter |-> "agDateColumnFilter",
          colDef |-> [valueFormatter |-> "date",
                      cellEditor |-> "agDateStringCellEditor",
                      cellEditorParams |-> [useFormatter |-> TRUE],
                      filterParams |-> [browserDatePicker |-> TRUE]]]
    ELSE IF AllNumeric(values)
    THEN [filter |-> "agNumberColumnFilter",
          colDef |-> [type |-> "numericColumn"] @@ inferNumberFormatting(field, values)]
    ELSE IF SomeArray(values)
    THEN [filter |-> "agTextColumnFilter",
          colDef |-> [valueFormatter |-> "join",
                      cellEditor |-> "agLargeTextCellEditor",
                      cellEditorParams |-> [maxLength |-> 500, rows |-> 5, cols |-> 50]]]
    ELSE IF SomeObject(values)
    THEN [filter |-> "agTextColumnFilter",
          colDef |-> [valueFormatter |-> "json",
                      cellEditor |-> "agLargeTextCellEditor",
                      cellEditorParams |-> [maxLength |-> 1000, rows |-> 5, cols |-> 50]]]
    ELSE IF isEmailField(field, values)
    THEN [filter |-> "agTextColumnFilter", colDef |-> [cellRenderer |-> "mailto"]]
    ELSE IF isUrlField(field, values)
    THEN [filter |-> "agTextColumnFilter", colDef |-> [cellRenderer |-> "link"]]
    ELSE IF isEnumField(values)
    THEN [filter |-> "agSetColumnFilter",
          colDef |-> [cellEditor |-> "agSelectCellEditor",
                      cellEditorParams |-> [values |-> UniqueStrings(values)],
                      filterParams |-> [values |-> UniqueStrings(values)]]]
    ELSE [filter |-> "agTextColumnFilter", colDef |-> [cellEditor |-> "agTextCellEditor"]]

\* inferFieldType(field, values)
inferFieldType(field, values, engine) ==
    IF AllBoolean(values)
    THEN [filter |-> "agSetColumnFilter",
          colDef |-> [cellRenderer |-> "agCheckboxCellRenderer",
                      cellEditor |-> "agCheckboxCellEditor",
                      cellEditorParams |-> [useFormatter |-> TRUE]]]
    ELSE IF AllNumeric(values)
    THEN [filter |-> "agNumberColumnFilter",
          colDef |-> [type |-> "numericColumn"] @@ inferNumberFormatting(field, values)]
    ELSE IF isDateField(field, values, engine)
    THEN [filter |-> "agDateColumnFilter",
          colDef |-> [valueFormatter |-> "date",
                      cellEditor |-> "agDateStringCellEditor",
                      cellEditorParams |-> [useFormatter |-> TRUE],
                      filterParams |-> [browserDatePicker |-> TRUE]]]
    ELSE IF SomeArray(values)
    THEN [filter |-> "agTextColumnFilter",
          colDef |-> [valueFormatter |-> "join",
                      cellEditor |-> "agLargeTextCellEditor",
                      cellEditorParams |-> [maxLength |-> 500, rows |-> 5, cols |-> 50]]]
    ELSE IF SomeObject(values)
    THEN [filter |-> "agTextColumnFilter",
          colDef |-> [valueFormatter |-> "json",
                      cellEditor |-> "agLargeTextCellEditor",
                      cellEditorParams |-> [maxLength |-> 1000, rows |-> 5, cols |-> 50]]]
    ELSE IF isEmailField(field, values)
    THEN [filter |-> "agTextColumnFilter", colDef |-> [cellRenderer |-> "mailto"]]
    ELSE IF isUrlField(field, values)
    THEN [filter |-> "agTextColumnFilter", colDef |-> [cellRenderer |-> "link"]]
    ELSE IF isEnumField(values)
    THEN [filter |-> "agSetColumnFilter",
          colDef |-> [cellEditor |-> "agSelectCellEditor",
                      cellEditorParams |-> [values |-> UniqueStrings(values)],
                      filterParams |-> [values |-> UniqueStrings(values)]]]
    ELSE [filter |-> "agTextColumnFilter", colDef |-> [cellEditor |-> "agTextCellEditor"]]

----------------------------------------------------------------------------
(* inferColumnDefs, the variant of utils/generateFixedIncomeData.ts.        *)
(* The argument is [kind, items]: kind tells an array from null and         *)
(* undefined, items are the rows of the array.                              *)

\* mutant: the tenth is rounded down
SampleSizeMutant(n) == Min(50, Max(5, Floor(n, 10)))

\* Math.min(50, Math.max(5, Math.ceil(rowData.length * 0.1))); the double
\* product n * 0.1 has the ceiling of n / 10 for every n up to 2000
SampleSize(n) == Min(50, Max(5, Ceil(n, 10)))

\* rowData.slice(0, sampleSize)
Slice(items, sampleSize) == SubSeq(items, 1, Min(sampleSize, Len(items)))

\* mutant: inferFieldType is asked even when no value is left
ColumnDefMutant(field, sample, engine) ==
    LET values == FieldValues(sample, field)
        typeInfo == inferFieldType(field, values, engine)
    IN  typeInfo.colDef @@
        [field |-> field,
         headerName |-> formatHeaderName(field),
         filter |-> typeInfo.filter,
         sortable |-> TRUE,
         resizable |-> TRUE]

\* the column definition of one field
ColumnDef(field, sample, engine) ==
    LET values == FieldValues(sample, field)
        typeInfo == inferFieldType(field, values, engine)
    IN  IF Len(values) = 0
        THEN [field |-> field,
              headerName |-> formatHeaderName(field),
              filter |-> "agTextColumnFilter"]
        ELSE typeInfo.colDef @@
             [field |-> field,
              headerName |-> formatHeaderName(field),
              filter |-> typeInfo.filter,
              sortable |-> TRUE,
              resizable |-> TRUE]

\* mutant: a field that ends at the free-text default is given no column
inferColumnDefsSkipMutant(rd, engine) ==
    IF rd.kind # "array" \/ Len(rd.items) = 0
    THEN << >>
    ELSE LET sample == Slice(rd.items, SampleSize(Len(rd.items)))
             allKeys == AllKeys(<< >>, sample)
             all == [j \in 1 .. Len(allKeys) |-> ColumnDef(allKeys[j], sample, engine)]
             Kept(entry) == ~("cellEditor" \in DOMAIN entry /\ entry.cellEditor = "agTextCellEditor")
         IN  SelectSeq(all, Kept)

\* mutant: only the empty list is given no column, a missing input is given one
inferColumnDefsMutant(rd, engine) ==
    IF rd.kind = "array" /\ Len(rd.items) = 0
    THEN << >>
    ELSE IF rd.kind # "array"
    THEN << ColumnDef(rd.kind, << >>, engine) >>
    ELSE LET sample == Slice(rd.items, SampleSize(Len(rd.items)))
             allKeys == AllKeys(<< >>, sample)
         IN  [j \in 1 .. Len(allKeys) |-> ColumnDef(allKeys[j], sample, engine)]

\* inferColumnDefs(rowData)
inferColumnDefs(rd, engine) ==
    IF rd.kind # "array" \/ Len(rd.items) = 0
    THEN << >>
    ELSE LET sample == Slice(rd.items, SampleSize(Len(rd.items)))
             allKeys == AllKeys(<< >>, sample)
         IN  [j \in 1 .. Len(allKeys) |-> ColumnDef(allKeys[j], sample, engine)]

----------------------------------------------------------------------------
(* inferColumnDefs, the variant of utils/gridUtils.ts *)

\* mutant: the window is capped at 50 rows as in the other variant
GridSampleSizeMutant(n) == Min(50, Max(1, Ceil(n, 20)))

\* Math.max(1, Math.ceil(rowData.length * 0.05)); the double product
\* n * 0.05 has the ceiling of n / 20 for every n up to 5000
GridSampleSize(n) == Max(1, Ceil(n, 20))

\* sample.find(item => item[field] !== null && item[field] !== undefined)?.[field]
GridSampleValue(sample, field) ==
    LET values == FieldValues(sample, field)
    IN  IF Len(values) = 0 THEN Undefined ELSE values[1]

\* the valueFormatter of a numeric field: it tests the field's name at each
\* call, so it is one formatter per field
GridNumberFormatter(field) ==
    IF NameHints(field, {"price", "amount", "value", "cost"})
    THEN "currency"
    ELSE IF NameHints(field, {"rate", "percent", "yield"})
         THEN "percent/100"
         ELSE "decimal"

\* the column definition of one field
GridColumnDef(field, sample) ==
    LET sampleValue == GridSampleValue(sample, field)
        isNumber == sampleValue.t = "number"
        isDate == /\ sampleValue.t = "string"
                  /\ (MatchesIsoDateOnly(sampleValue.s) \/ MatchesIsoDateTimePrefix(sampleValue.s))
        base == [field |-> field,
                 headerName |-> GridHeaderName(field),
                 filter |-> TRUE,
                 sortable |-> TRUE,
                 resizable |-> TRUE]
    IN  IF isDate THEN [valueFormatter |-> "date"] @@ base
        ELSE IF isNumber THEN [valueFormatter |-> GridNumberFormatter(field)] @@ base
        ELSE base

\* inferColumnDefs(rowData) of gridUtils
GridInferColumnDefs(rd) ==
    IF rd.kind # "array" \/ Len(rd.items) = 0
    THEN << >>
    ELSE LET sample == Slice(rd.items, GridSampleSize(Len(rd.items)))
             allKeys == AllKeys(<< >>, sample)
         IN  [j \in 1 .. Len(allKeys) |-> GridColumnDef(allKeys[j], sample)]

----------------------------------------------------------------------------
(* The inferencer called on its own: SpecInfer.                             *)
(* The argument is null, undefined, or a list of n rows that are all the    *)
(* base row but for one marked row at position p.  The marked row adds a    *)
(* field, changes the class of a value, fills a field that is null          *)
(* everywhere else, or lists its keys in the other order.                   *)

\* the list lengths 0 .. MaxSmall are all tried
MaxSmall == 8
\* beyond them 50, 51, the lengths 100 k and 100 k + 1 for k = 1 .. MaxSteps,
\* and 1020, 1021 (a twentieth of which is more than 50)
MaxSteps == 2
\* the marked row is one of the first MaxMarker rows
MaxMarker == 52

Lengths ==
    (0 .. MaxSmall) \cup {50, 51} \cup {100 * k + d : k \in 1 .. MaxSteps, d \in 0 .. 1}
    \cup {1020, 1021}

MarkerKinds == {"extra", "class", "fill", "order"}

Engines == {"strict", "lenient"}

BaseRow == << [k |-> "a", v |-> Num("5")], [k |-> "c", v |-> NullValue] >>

MarkedRow(m) ==
    CASE m = "extra" -> BaseRow \o << [k |-> "b", v |-> Str("x")] >>
      [] m = "class" -> << [k |-> "a", v |-> Str("x")], [k |-> "c", v |-> NullValue] >>
      [] m = "fill"  -> << [k |-> "a", v |-> Num("5")], [k |-> "c", v |-> Bool(TRUE)] >>
      [] m = "order" -> << [k |-> "c", v |-> NullValue], [k |-> "a", v |-> Num("5")] >>

Rows(n, p, m) == [j \in 1 .. n |-> IF j = p THEN MarkedRow(m) ELSE BaseRow]

\* the marked row is anywhere, but that with the other key order is the first
MarkedInputs ==
    {[kind |-> "array", items |-> Rows(n, p, m)] :
        n \in Lengths, p \in 0 .. MaxMarker, m \in MarkerKinds \ {"order"}}
    \cup {[kind |-> "array", items |-> Rows(n, 1, "order")] : n \in Lengths}

\* Lists of three rows with one field: the field's name is neutral or holds
\* a hint of one of the name tests, its values are any two of the pool, the
\* first of them twice.
FieldNames ==
    {"status", "price", "priceRatio", "yieldRate", "issueDate", "email", "website"}

ValuePool ==
    {Bool(TRUE), Bool(FALSE), Str("true"), Num("5"), Num("0.5"), Str("x"),
     Str("2020-01-02"), Str("Bond 2030"), Str("a@b.co"), Str("www.ab"),
     Arr("1,2"), Obj, DateObj("Thu Jan 02 2020"), NullValue}

OneFieldRows(name, vs) == [j \in 1 .. Len(vs) |-> << [k |-> name, v |-> vs[j]] >>]

OneFieldInputs ==
    {[kind |-> "array", items |-> OneFieldRows(name, << v, v, w >>)] :
        name \in FieldNames, v \in ValuePool, w \in ValuePool}

\* The list [{a: true}, {a: false}, {a: "true"}]
BooleanExample == OneFieldRows("a", << Bool(TRUE), Bool(FALSE), Str("true") >>)

\* Lists of 10 s rows, of which s are sampled, with the one field status,
\* whose values run through d = 1 .. MaxDistinct labels again and again,
\* upwards or downwards; s is 5, 10 or one of the five sizes up to MaxSample.
MaxSample == 24
MaxDistinct == 11

SampleSizes == {5, 10} \cup (MaxSample - 4 .. MaxSample)

Label(k) == CharAt(UpperLetters, k)

CycleRows(n, d, down) ==
    OneFieldRows("status",
        [j \in 1 .. n |-> Str(Label(IF down THEN d - ((j - 1) % d) ELSE ((j - 1) % d) + 1))])

CycleInputs ==
    {[kind |-> "array", items |-> CycleRows(10 * size, d, down)] :
        size \in SampleSizes, d \in 1 .. MaxDistinct, down \in BOOLEAN}

\* Lists of one row with one field, named in camel case, with underscores,
\* with a digit, with a leading or a doubled underscore.
LabelNames == {"instrumentType", "issue_date", "total_return_1y", "_id", "a__b"}

LabelInputs ==
    {[kind |-> "array", items |-> OneFieldRows(name, << v >>)] :
        name \in LabelNames, v \in {Num("5"), Str("x"), NullValue}}

Inputs ==
    {[kind |-> "null", items |-> << >>], [kind |-> "undefined", items |-> << >>]}
    \cup MarkedInputs
    \cup OneFieldInputs
    \cup {[kind |-> "array", items |-> BooleanExample]}
    \cup CycleInputs
    \cup LabelInputs

\* inferColumnDefs of utils/generateFixedIncomeData.ts is called
CallInferColumnDefs ==
    /\ variant = "none"
    /\ variant' = "generator"
    /\ colDefs' = inferColumnDefs(rowData, dateEngine)
    /\ UNCHANGED <<rowData, dateEngine>>
    /\ UNCHANGED genVars
    /\ UNCHANGED appVars

\* inferColumnDefs of utils/gridUtils.ts is called
CallGridInferColumnDefs ==
    /\ variant = "none"
    /\ variant' = "grid"
    /\ colDefs' = GridInferColumnDefs(rowData)
    /\ UNCHANGED <<rowData, dateEngine>>
    /\ UNCHANGED genVars
    /\ UNCHANGED appVars

\* mutant: the sample is taken with splice, which removes it from the input
CallAgainMutant(grid) ==
    /\ variant # "none"
    /\ variant' = IF grid THEN "grid" ELSE "generator"
    /\ colDefs' = IF grid THEN GridInferColumnDefs(rowData)
                          ELSE inferColumnDefs(rowData, dateEngine)
    /\ rowData' =
          [rowData EXCEPT !.items =
              SubSeq(@, 1 + Min(Len(@), IF grid THEN GridSampleSize(Len(@))
                                                 ELSE SampleSize(Len(@))), Len(@))]
    /\ UNCHANGED dateEngine
    /\ UNCHANGED genVars
    /\ UNCHANGED appVars

\* a later call of inferColumnDefs, of either file, on the collection an
\* earlier call was given
CallAgain(grid) ==
    /\ variant # "none"
    /\ variant' = IF grid THEN "grid" ELSE "generator"
    /\ colDefs' = IF grid THEN GridInferColumnDefs(rowData)
                          ELSE inferColumnDefs(rowData, dateEngine)
    /\ UNCHANGED <<rowData, dateEngine>>
    /\ UNCHANGED genVars
    /\ UNCHANGED appVars

InitInfer ==
    /\ AppInit
    /\ pc = "idle"
    /\ numRows = 0
    /\ i = 0
    /\ positions = << >>
    /\ result = << >>
    /\ outcome = "none"
    /\ mathRng = 0
    /\ fakerRng = 0
    /\ clock = ClockStart
    /\ rowData \in Inputs
    /\ colDefs = << >>
    /\ variant = "none"
    /\ dateEngine \in Engines

NextInfer ==
    \/ CallInferColumnDefs
    \/ CallGridInferColumnDefs

SpecInfer == InitInfer /\ [][NextInfer]_vars

\* The inferencer called more than once on one collection: SpecInferAgain.
AgainInputs ==
    {[kind |-> "null", items |-> << >>], [kind |-> "undefined", items |-> << >>]}
    \cup {rd \in MarkedInputs : Len(rd.items) <= MaxSmall}
    \cup {[kind |-> "array", items |-> BooleanExample]}
    \cup LabelInputs

InitInferAgain ==
    /\ AppInit
    /\ pc = "idle"
    /\ numRows = 0
    /\ i = 0
    /\ positions = << >>
    /\ result = << >>
    /\ outcome = "none"
    /\ mathRng = 0
    /\ fakerRng = 0
    /\ clock = ClockStart
    /\ rowData \in AgainInputs
    /\ colDefs = << >>
    /\ variant = "none"
    /\ dateEngine \in Engines

NextInferAgain ==
    \/ CallInferColumnDefs
    \/ CallGridInferColumnDefs
    \/ \E grid \in BOOLEAN : CallAgain(grid)

SpecInferAgain == InitInferAgain /\ [][NextInferAgain]_vars

----------------------------------------------------------------------------
(* The application shell, App.tsx.                                          *)
(* The script runs one task at a time: an event handler, an effect, a       *)
(* render or a timer callback runs to its end before the next starts.  A    *)
(* timer callback is the two steps TimerCallback (the call of the           *)
(* generator, run to its end) and CallbackEnd (what follows the call), and  *)
(* nothing else of the shell runs between them.  A state update made in a   *)
(* click handler is rendered before the handler's task ends; one made in    *)
(* an effect or a timer callback is rendered by a later task, Render.       *)

\* most calls of generateData in one behaviour
MaxRequests == 3


RECURSIVE RunToEnd(_, _, _, _, _, _, _, _, _)
\* generateFixedIncomeData run from the loop turn k to its end: the turns of
\* LoopBody and the final Return taken in one task.  failAt is the turn in
\* which an exception is raised from outside the draws (0: in none).  The
\* shell's callback is run with the clock standing still (dt = 0) and exact
\* products (err = 0): it reads no field of the records.
RunToEnd(n, k, ps, now, dt, err, m, f, failAt) ==
    IF ~LoopTest(k, n)
    THEN [outcome |-> "returned", positions |-> ps,
          mathRng |-> m, fakerRng |-> f, clock |-> now]
    ELSE IF k = failAt \/ PositionThrows(err, f)
    THEN [outcome |-> "threw", positions |-> ps,
          mathRng |-> RngNth(m, MathDraws(f)),
          fakerRng |-> RngNth(f, FakerDraws(f)), clock |-> now + dt]
    ELSE RunToEnd(n, k + 1, PushPosition(ps, k, now, dt, err, m, f), now + dt,
                  dt, err, RngNth(m, MathDraws(f)), RngNth(f, FakerDraws(f)), failAt)

\* mutant: the generator is run by the request itself, no timer is set
generateDataMutant(count, by) ==
    /\ loading' = TRUE
    /\ requests' = requests + 1
    /\ pc' = "done"
    /\ numRows' = 2 * count
    /\ LET run == RunToEnd(2 * count, 1, << >>, clock, 0, 0, mathRng, fakerRng, 0)
       IN  /\ result' = run.positions
           /\ outcome' = run.outcome
           /\ mathRng' = run.mathRng
           /\ fakerRng' = run.fakerRng
           /\ clock' = run.clock
    /\ UNCHANGED <<i, positions, timers, rowCount, heldRowData>>

\* generateData(count): setLoading(true); setTimeout(callback, 50).
\* by tells the caller: the mount effect or the button.
generateData(count, by) ==
    /\ loading' = TRUE
    /\ timers' = Append(timers, [count |-> count, by |-> by])
    /\ requests' = requests + 1
    /\ UNCHANGED genVars
    /\ UNCHANGED <<rowCount, heldRowData>>

\* useEffect(() => { generateData(rowCount) }, []): the effect of the first
\* render, whose rowCount is the initial one
MountEffect ==
    /\ pc = "idle"
    /\ ~mounted
    /\ mounted' = TRUE
    /\ generateData(InitialRowCount, "mount")
    /\ UNCHANGED disabled
    /\ UNCHANGED inferVars

\* a click on <Button onClick={handleGenerateData} disabled={loading}>: a
\* disabled button dispatches no click; the loading state the handler sets is
\* rendered before its task ends
handleGenerateData ==
    /\ pc = "idle"
    /\ mounted
    /\ ~disabled
    /\ requests < MaxRequests
    /\ generateData(rowCount, "button")
    /\ disabled' = TRUE
    /\ UNCHANGED mounted
    /\ UNCHANGED inferVars

\* onChange={(e) => setRowCount(Number(e.target.value))}
SetRowCount(count) ==
    /\ pc = "idle"
    /\ count # rowCount
    /\ rowCount' = count
    /\ UNCHANGED <<mounted, loading, heldRowData, disabled, timers, requests>>
    /\ UNCHANGED genVars
    /\ UNCHANGED inferVars

\* a render of App after a state update of an effect or a timer callback:
\* disabled={loading}
Render ==
    /\ pc = "idle"
    /\ disabled # loading
    /\ disabled' = loading
    /\ UNCHANGED <<mounted, loading, rowCount, heldRowData, timers, requests>>
    /\ UNCHANGED genVars
    /\ UNCHANGED inferVars

\* the oldest timer expires:
\* try { const generatedData = generateFixedIncomeData(count)
TimerCallback ==
    /\ pc = "idle"
    /\ timers # << >>
    /\ timers' = Tail(timers)
    /\ pc' = "done"
    /\ numRows' = 2 * Head(timers).count
    /\ \E failAt \in 0 .. 1 :
          LET run == RunToEnd(2 * Head(timers).count, 1, << >>, clock, 0, 0,
                              mathRng, fakerRng, failAt)
          IN  /\ result' = IF run.outcome = "returned" THEN run.positions ELSE result
              /\ outcome' = run.outcome
              /\ mathRng' = run.mathRng
              /\ fakerRng' = run.fakerRng
              /\ clock' = run.clock
    /\ UNCHANGED <<i, positions>>
    /\ UNCHANGED <<mounted, loading, rowCount, heldRowData, disabled, requests>>
    /\ UNCHANGED inferVars

\* mutant: the new records are appended to the dataset
RowDataAfterMutant(held, out, generatedData) ==
    IF out = "returned" THEN held \o generatedData ELSE held

\* setRowData(generatedData) } catch (error) { console.error(...) }
RowDataAfter(held, out, generatedData) ==
    IF out = "returned" THEN generatedData ELSE held

\* mutant: loading is reset at the end of the try block, not in a finally
LoadingAfterMutant(was, out) == IF out = "returned" THEN FALSE ELSE was

\* finally { setLoading(false) }
LoadingAfter(was, out) == FALSE

\* the rest of the callback once generateFixedIncomeData has returned or
\* thrown
CallbackEnd ==
    /\ pc = "done"
    /\ pc' = "idle"
    /\ heldRowData' = RowDataAfter(heldRowData, outcome, result)
    /\ loading' = LoadingAfter(loading, outcome)
    /\ UNCHANGED <<numRows, i, positions, result, outcome, mathRng, fakerRng, clock>>
    /\ UNCHANGED <<mounted, rowCount, disabled, timers, requests>>
    /\ UNCHANGED inferVars

InitApp ==
    /\ AppInit
    /\ pc = "idle"
    /\ numRows = 0
    /\ i = 0
    /\ positions = << >>
    /\ result = << >>
    /\ outcome = "none"
    /\ mathRng = 0
    /\ fakerRng = 0
    /\ clock = ClockStart
    /\ rowData = [kind |-> "array", items |-> << >>]
    /\ colDefs = << >>
    /\ variant = "none"
    /\ dateEngine = "strict"

NextApp ==
    \/ MountEffect
    \/ handleGenerateData
    \/ \E count \in RowOptions : SetRowCount(count)
    \/ Render
    \/ TimerCallback
    \/ CallbackEnd

SpecApp == InitApp /\ [][NextApp]_vars

\* a step of TimerCallback, told by what every such step does to the timers
\* and to the position in the callback
TimerExpires ==
    /\ pc = "idle"
    /\ timers # << >>
    /\ timers' = Tail(timers)
    /\ pc' = "done"

\* The event loop runs the callback of an expired timer, and a callback that
\* has started runs to its end.
SpecAppFair ==
    /\ SpecApp
    /\ WF_<<pc, timers>>(TimerExpires)
    /\ WF_vars(CallbackEnd)

----------------------------------------------------------------------------
(* The generator's records as the rows the inferencer is given.             *)
(* A record of generatePosition is an object whose keys are in the order    *)
(* of its literal; a row is the sequence of its keys and values.  A number  *)
(* is written from the scaled integer that stands for it.                   *)

RECURSIVE NatString(_)
\* String(n) for a natural number n
NatString(n) ==
    IF n < 10 THEN CharAt(Digits, n + 1)
    ELSE NatString(n \div 10) \o CharAt(Digits, (n % 10) + 1)

RECURSIVE ZeroPad(_, _)
\* str.padStart(width, '0')
ZeroPad(str, width) == IF Len(str) >= width THEN str ELSE ZeroPad("0" \o str, width)

RECURSIVE DropEndZeros(_)
\* the digits without the zeros that end them
DropEndZeros(digits) ==
    IF Len(digits) > 0 /\ CharAt(digits, Len(digits)) = "0"
    THEN DropEndZeros(SubSeq(digits, 1, Len(digits) - 1))
    ELSE digits

RECURSIVE DropFrontZeros(_)
\* the digits without the zeros that start them, but for the last digit
DropFrontZeros(digits) ==
    IF Len(digits) > 1 /\ CharAt(digits, 1) = "0"
    THEN DropFrontZeros(SubSeq(digits, 2, Len(digits)))
    ELSE digits

\* String(v) for the number v = digits / 10^places
PointString(digits, places) ==
    LET all == ZeroPad(digits, places + 1)
        whole == DropFrontZeros(SubSeq(all, 1, Len(all) - places))
        fraction == DropEndZeros(SubSeq(all, Len(all) - places + 1, Len(all)))
    IN  IF fraction = "" THEN whole ELSE whole \o "." \o fraction

\* String(v) for the number v = n / 10^places
DecimalString(n, places) ==
    IF n < 0 THEN "-" \o PointString(NatString(-n), places)
    ELSE PointString(NatString(n), places)

\* String(v) for the quotient v = num / den of two positive numbers; the
\* digits after the fourth are left out
QuotientString(num, den) ==
    LET whole == num \div den
        rest == num % den
    IN  IF rest = 0 THEN NatString(whole)
        ELSE NatString(whole) \o "." \o ZeroPad(NatString((rest * 10000) \div den), 4)

\* the digits of a * b for naturals a, b whose product does not fit 32 bits
ProductDigits(a, b) ==
    LET ah == a \div 10000
        al == a % 10000
        bh == b \div 10000
        bl == b % 10000
        low == al * bl
        mid == ah * bl + al * bh + (low \div 10000)
        high == ah * bh + (mid \div 10000)
    IN  DropFrontZeros(NatString(high) \o ZeroPad(NatString(mid % 10000), 4)
                                       \o ZeroPad(NatString(low % 10000), 4))

\* String(v) for an amount v = coef * base / 10^5
MoneyString(money) ==
    IF money.coef < 0
    THEN "-" \o PointString(ProductDigits(-money.coef, money.base), 5)
    ELSE PointString(ProductDigits(money.coef, money.base), 5)

\* the lengths of the months of the model's year of 365 days
MonthDays == << 31, 28, 31, 30, 31, 30, 31, 31, 30, 31, 30, 31 >>

RECURSIVE MonthOf(_, _)
\* the month the day d (from 0) of a year falls in, counting from month m
MonthOf(d, m) == IF d < MonthDays[m] THEN m ELSE MonthOf(d - MonthDays[m], m + 1)

RECURSIVE DaysBefore(_)
\* the days of a year before its month m
DaysBefore(m) == IF m = 1 THEN 0 ELSE DaysBefore(m - 1) + MonthDays[m - 1]

\* date.toISOString().split('T')[0] as text, day 0 being 1970-01-01
DateString(day) ==
    LET year == 1970 + (day \div 365)
        d == day % 365
        month == MonthOf(d, 1)
    IN  ZeroPad(NatString(year), 4) \o "-" \o ZeroPad(NatString(month), 2)
            \o "-" \o ZeroPad(NatString(d - DaysBefore(month) + 1), 2)

\* a value that is null or a date, and one that is null or a number
DateOrNull(opt) == IF opt = Null THEN NullValue ELSE Str(DateString(opt[1]))
NumberOrNull(opt, places) ==
    IF opt = Null THEN NullValue ELSE Num(DecimalString(opt[1], places))

\* mutant: a key whose value is null is left out of the object
PositionRowMutant(r) ==
    LET row == << [k |-> "id", v |-> Num(NatString(r.id))],
                  [k |-> "nextCallDate", v |-> DateOrNull(r.nextCallDate)],
                  [k |-> "nextPutDate", v |-> DateOrNull(r.nextPutDate)],
                  [k |-> "callPrice", v |-> NumberOrNull(r.callPrice, 2)],
                  [k |-> "putPrice", v |-> NumberOrNull(r.putPrice, 2)] >>
    IN  Filter(row, Range(row) \ {[k |-> key, v |-> NullValue] :
                  key \in {"nextCallDate", "nextPutDate", "callPrice", "putPrice"}})

\* the object generatePosition returns, as a row
PositionRow(r) ==
    << [k |-> "id", v |-> Num(NatString(r.id))],
       [k |-> "instrumentType", v |-> Str(r.instrumentType)],
       [k |-> "issueDate", v |-> Str(DateString(r.issueDate))],
       [k |-> "maturityDate", v |-> Str(DateString(r.maturityDate))],
       [k |-> "faceValue", v |-> Num(NatString(r.faceValue))],
       [k |-> "couponRate", v |-> Num(DecimalString(r.couponRate, 3))],
       [k |-> "ytm", v |-> Num(DecimalString(r.ytm, 3))],
       [k |-> "currency", v |-> Str(r.currency)],
       [k |-> "country", v |-> Str(r.country)],
       [k |-> "creditRating", v |-> Str(r.creditRating)],
       [k |-> "duration", v |-> Num(DecimalString(r.duration, 2))],
       [k |-> "modifiedDuration",
        v |-> Num(QuotientString(r.modifiedDuration.num, r.modifiedDuration.den))],
       [k |-> "quantity", v |-> Num(NatString(r.quantity))],
       [k |-> "marketValue", v |-> Num(MoneyString(r.marketValue))],
       [k |-> "unrealizedGainLoss", v |-> Num(MoneyString(r.unrealizedGainLoss))],
       [k |-> "costBasis", v |-> Num(MoneyString(r.costBasis))],
       [k |-> "sector", v |-> Str(r.sector)],
       [k |-> "yieldToWorst", v |-> Num(DecimalString(r.yieldToWorst, 3))],
       [k |-> "spreadDuration", v |-> Num(DecimalString(r.spreadDuration, 2))],
       [k |-> "bidPrice", v |-> Num(DecimalString(r.bidPrice, 2))],
       [k |-> "askPrice", v |-> Num(DecimalString(r.askPrice, 2))],
       [k |-> "bidAskSpread", v |-> Num(DecimalString(r.bidAskSpread, 2))],
       [k |-> "lastTradeDate", v |-> Str(DateString(r.lastTradeDate))],
       [k |-> "issuerCountry", v |-> Str(r.issuerCountry)],
       [k |-> "issuerIndustry", v |-> Str(r.issuerIndustry)],
       [k |-> "hasCallFeature", v |-> Bool(r.hasCallFeature)],
       [k |-> "hasPutFeature", v |-> Bool(r.hasPutFeature)],
       [k |-> "nextCallDate", v |-> DateOrNull(r.nextCallDate)],
       [k |-> "nextPutDate", v |-> DateOrNull(r.nextPutDate)],
       [k |-> "callPrice", v |-> NumberOrNull(r.callPrice, 2)],
       [k |-> "putPrice", v |-> NumberOrNull(r.putPrice, 2)],
       [k |-> "valueatrisk95", v |-> Num(DecimalString(r.valueatrisk95, 2))],
       [k |-> "expectedShortfall", v |-> Num(DecimalString(r.expectedShortfall, 2))],
       [k |-> "tradeDate", v |-> Str(DateString(r.tradeDate))],
       [k |-> "macaulayDuration", v |-> Num(DecimalString(r.macaulayDuration, 7))] >>

\* most records generated for the grid
MaxShown == 6

\* generateFixedIncomeData(count) returns and the records become the rowData
\* the inferencer is called with (<DataTable rowData={rowData} />)
GenerateRowData(count) ==
    /\ pc = "idle"
    /\ variant = "none"
    /\ \E run \in {RunToEnd(2 * count, 1, << >>, clock, 0, 0, mathRng, fakerRng, 0)} :
           /\ run.outcome = "returned"
           /\ pc' = "done"
           /\ numRows' = 2 * count
           /\ result' = run.positions
           /\ outcome' = run.outcome
           /\ mathRng' = run.mathRng
           /\ fakerRng' = run.fakerRng
           /\ clock' = run.clock
           /\ rowData' = [kind |-> "array",
                          items |-> [k \in 1 .. Len(run.positions) |->
                                        PositionRow(run.positions[k])]]
    /\ UNCHANGED <<i, positions, colDefs, variant, dateEngine>>
    /\ UNCHANGED appVars

InitPipeline ==
    /\ AppInit
    /\ pc = "idle"
    /\ numRows = 0
    /\ i = 0
    /\ positions = << >>
    /\ result = << >>
    /\ outcome = "none"
    /\ mathRng \in 0 .. 1
    /\ fakerRng \in 0 .. RngModulus - 1
    /\ clock = ClockStart
    /\ rowData = [kind |-> "array", items |-> << >>]
    /\ colDefs = << >>
    /\ variant = "none"
    /\ dateEngine = "strict"

NextPipeline ==
    \/ \E count \in {1, MaxShown} : GenerateRowData(count)
    \/ CallInferColumnDefs
    \/ CallGridInferColumnDefs

SpecPipeline == InitPipeline /\ [][NextPipeline]_vars

----------------------------------------------------------------------------
(* Claims about the generator, checked under Spec *)

\* the count passed is a non-negative integer
ValidCount == numRows >= 0 /\ numRows % 2 = 0

\* every record generated so far, returned or not
Generated == {positions[k] : k \in DOMAIN positions} \cup {result[k] : k \in DOMAIN result}

\* C1: generateFixedIncomeData(count) returns exactly count records for every
\* non-negative integer count, and the empty sequence for count = 0.
C1_LengthIsCount ==
    (outcome = "returned" /\ ValidCount) => Len(result) * 2 = numRows

\* C1 witness: a call with a positive integer count has returned
C1_Witness == outcome = "returned" /\ numRows = 2 * MaxRows /\ Len(result) = MaxRows

\* C2: the record at 0-based position k has id k + 1 (here positions are
\* 1-based, so the record at position k has id k): ids are unique, start at
\* 1, are contiguous and increasing.
C2_IdsArePositions ==
    /\ \A k \in DOMAIN positions : positions[k].id = k
    /\ \A k \in DOMAIN result : result[k].id = k

\* C2 witness: a returned sequence of at least two records
C2_Witness == outcome = "returned" /\ Len(result) >= 2 /\ result[2].id = 2

\* C3: a negative or non-integer count is rejected with an invalid-argument
\* signal; no sequence is returned for it.
C3_InvalidCountRejected ==
    (pc = "done" /\ ~ValidCount) => (outcome = "invalid-argument" /\ result = << >>)

\* C4: in every record askPrice >= bidPrice, bidAskSpread = askPrice - bidPrice
\* (so it is >= 0), and askPrice lies in [bidPrice, bidPrice * 1.02].
C4_AskNotBelowBid ==
    \A r \in Generated :
        /\ r.askPrice >= r.bidPrice
        /\ r.askPrice * 100 <= r.bidPrice * 102
        /\ r.bidAskSpread = r.askPrice - r.bidPrice
        /\ r.bidAskSpread >= 0

\* C4 witness: a returned record whose ask is the lowest the draw allows
C4_Witness ==
    outcome = "returned" /\ \E k \in DOMAIN result : result[k].askPrice = result[k].bidPrice

\* C5: in every record modifiedDuration = duration / (1 + ytm/100) and
\* macaulayDuration = duration * (1 + ytm/100), from the duration and ytm the
\* record itself carries.  (duration is in hundredths and ytm in thousandths,
\* so 1 + ytm/100 is (100000 + ytm) / 100000.)
C5_DurationsDerived ==
    \A r \in Generated :
        /\ r.modifiedDuration.num = r.duration * 1000
        /\ r.modifiedDuration.den = 100000 + r.ytm
        /\ r.macaulayDuration = r.duration * (100000 + r.ytm)

\* C5 witness: two returned records that differ in duration and in ytm
C5_Witness ==
    outcome = "returned" /\ Len(result) >= 2
    /\ result[1].duration # result[2].duration /\ result[1].ytm # result[2].ytm

\* C6: in every record costBasis = marketValue - unrealizedGainLoss, on the
\* values the record carries, and unrealizedGainLoss is within -10% .. +10%
\* of marketValue.
C6_CostBasisDerived ==
    \A r \in Generated :
        /\ r.costBasis.base = r.marketValue.base
        /\ r.unrealizedGainLoss.base = r.marketValue.base
        /\ r.costBasis.coef = r.marketValue.coef - r.unrealizedGainLoss.coef
        /\ r.unrealizedGainLoss.coef * 10 <= r.marketValue.coef
        /\ r.unrealizedGainLoss.coef * 10 >= -r.marketValue.coef

\* C6 witness: a returned record with a loss (cost basis above market value)
C6_Witness ==
    outcome = "returned"
    /\ \E k \in DOMAIN result : result[k].costBasis.coef > result[k].marketValue.coef

\* C7: nextCallDate and callPrice are non-null exactly when hasCallFeature,
\* nextPutDate and putPrice exactly when hasPutFeature; the four keys are
\* present in every record, with null when the flag is false.
C7_OptionFieldsFollowFlags ==
    \A r \in Generated :
        /\ {"nextCallDate", "callPrice", "nextPutDate", "putPrice"} \subseteq DOMAIN r
        /\ (r.nextCallDate # Null) <=> r.hasCallFeature
        /\ (r.callPrice # Null) <=> r.hasCallFeature
        /\ (r.nextPutDate # Null) <=> r.hasPutFeature
        /\ (r.putPrice # Null) <=> r.hasPutFeature

\* C7 witness: a returned record with the put feature and without the call
\* feature, its call fields null and its put fields set
C7_Witness ==
    outcome = "returned"
    /\ \E k \in DOMAIN result :
          /\ ~result[k].hasCallFeature /\ result[k].hasPutFeature
          /\ result[k].callPrice = Null /\ result[k].putPrice # Null

\* C8 as claimed: the generator can produce a record whose maturityDate is
\* before its issueDate (whenever it is about to generate a record, some
\* outputs of Math.random() and some advance of the clock give such a record).
C8_MaturityCanPrecedeIssue ==
    (pc = "loop" /\ LoopTest(i, numRows)) =>
        \E m \in 0 .. RngModulus - 1, dt \in 0 .. MaxClockStep :
            LET r == generatePosition(i, clock, dt, 0, m, fakerRng)
            IN  r.maturityDate < r.issueDate

\* C8 as amended: the maturity date is drawn without reading the issue date,
\* but the two ranges do not overlap (issue date ends and maturity date
\* starts at the instant of generation), so no record has its maturityDate
\* before its issueDate.
C8_MaturityNotBeforeIssue ==
    \A r \in Generated : r.maturityDate >= r.issueDate

\* C8 witness: a returned record whose issue date is in the past 20 years
\* and whose maturity date is in the next 30 years
C8_Witness ==
    outcome = "returned"
    /\ \E k \in DOMAIN result :
          /\ result[k].issueDate < IsoDate(ClockStart)
          /\ result[k].issueDate >= IsoDate(ClockStart - 20 * YearTicks)
          /\ result[k].maturityDate > IsoDate(ClockStart)

----------------------------------------------------------------------------
(* Claims about the inferencer, checked under SpecInfer *)

\* the input is null, undefined or an empty list
EmptyInput == rowData.kind # "array" \/ Len(rowData.items) = 0

\* C9: whichever variant of inferColumnDefs ran, on an input that is an
\* empty list, null or undefined it returned the empty sequence.
C9_EmptyInputGivesNoColumns ==
    (variant # "none" /\ EmptyInput) => colDefs = << >>

C9_Witness ==
    /\ variant = "grid"
    /\ rowData.kind = "undefined"
    /\ colDefs = << >>

\* the keys of the rows of a sample
KeysOf(sample) == UNION {Range(Keys(sample[j])) : j \in 1 .. Len(sample)}

\* the first min(50, max(5, ceil(n / 10))) rows of the input
Window ==
    LET n == Len(rowData.items)
        w == Min(50, Max(5, Ceil(n, 10)))
    IN  SubSeq(rowData.items, 1, Min(w, n))

\* the input with every row after the window emptied
WindowOnly ==
    [kind |-> "array",
     items |-> LET w == Len(Window)
               IN  [j \in 1 .. Len(rowData.items) |->
                       IF j <= w THEN rowData.items[j] ELSE << >>]]

\* C10: when the generator file's inferColumnDefs ran on n > 0 rows, the
\* fields it gave a column are, each once, the keys of the first
\* min(50, max(5, ceil(n * 0.1))) rows, and what it returned is what it
\* returns when every later row is emptied: no row after the window is
\* looked at, a field found only there has no column.
C10_OnlyTheWindowIsInspected ==
    (variant = "generator" /\ ~EmptyInput) =>
        /\ {colDefs[j].field : j \in 1 .. Len(colDefs)}
              = KeysOf(Window)
        /\ \A j, k \in 1 .. Len(colDefs) : colDefs[j].field = colDefs[k].field => j = k
        /\ colDefs = inferColumnDefs(WindowOnly, dateEngine)

C10_Witness ==
    /\ variant = "generator"
    /\ rowData.kind = "array"
    /\ Len(rowData.items) = 200
    /\ Len(Window) = 20
    /\ Lookup(rowData.items[21], "b") = Str("x")
    /\ \A j \in 1 .. 20 : Lookup(rowData.items[j], "b") = Undefined
    /\ \A j \in 1 .. Len(colDefs) : colDefs[j].field # "b"
    /\ Len(colDefs) = 2

\* the first max(1, ceil(n / 20)) rows of the input
GridWindow ==
    LET n == Len(rowData.items)
        w == Max(1, Ceil(n, 20))
    IN  SubSeq(rowData.items, 1, Min(w, n))

\* the input with every row after the grid window emptied
GridWindowOnly ==
    [kind |-> "array",
     items |-> LET w == Len(GridWindow)
               IN  [j \in 1 .. Len(rowData.items) |->
                       IF j <= w THEN rowData.items[j] ELSE << >>]]

\* C11: when the inferColumnDefs of utils/gridUtils (the one the grid
\* component imports) ran on n > 0 rows, the fields it gave a column are,
\* each once, the keys of the first max(1, ceil(n * 0.05)) rows, however
\* many these are, and what it returned is what it returns when every later
\* row is emptied.
C11_GridWindowIsFivePercent ==
    (variant = "grid" /\ ~EmptyInput) =>
        /\ {colDefs[j].field : j \in 1 .. Len(colDefs)}
              = KeysOf(GridWindow)
        /\ \A j, k \in 1 .. Len(colDefs) : colDefs[j].field = colDefs[k].field => j = k
        /\ colDefs = GridInferColumnDefs(GridWindowOnly)

\* 1021 rows: the window is 52 rows, and the field found only in row 52
\* has a column
C11_Witness ==
    /\ variant = "grid"
    /\ rowData.kind = "array"
    /\ Len(rowData.items) = 1021
    /\ Len(GridWindow) = 52
    /\ Lookup(rowData.items[52], "b") = Str("x")
    /\ \A j \in 1 .. 51 : Lookup(rowData.items[j], "b") = Undefined
    /\ \E j \in 1 .. Len(colDefs) : colDefs[j].field = "b"

\* the rows the variant that ran has sampled
Sampled == IF variant = "grid" THEN GridWindow ELSE Window

\* the first row of the sample that has the key
FirstRowWith(sample, key) ==
    LET rows == {j \in 1 .. Len(sample) : key \in Range(Keys(sample[j]))}
    IN  CHOOSE j \in rows : \A h \in rows : j <= h

\* the place of the key among the keys of a row
PlaceInRow(row, key) == CHOOSE h \in 1 .. Len(row) : row[h].k = key

\* where the key is first seen: the row, and the place in the row
FirstSeenAt(sample, key) ==
    LET j == FirstRowWith(sample, key)
    IN  << j, PlaceInRow(sample[j], key) >>

\* C12: whichever variant ran on a non-empty list, the output has one entry
\* for each key of the union of the keys of all sampled rows, no entry
\* twice and no other entry, and the entries are in the order in which the
\* keys are first seen, rows in order and keys in each row's order.
C12_OneEntryPerKeyFirstSeenOrder ==
    (variant # "none" /\ ~EmptyInput) =>
        LET sample == Sampled
        IN  /\ {colDefs[j].field : j \in 1 .. Len(colDefs)} = KeysOf(sample)
            /\ \A j, k \in 1 .. Len(colDefs) :
                  j < k =>
                     LET f == FirstSeenAt(sample, colDefs[j].field)
                         g == FirstSeenAt(sample, colDefs[k].field)
                     IN  /\ colDefs[j].field # colDefs[k].field
                         /\ \/ f[1] < g[1]
                            \/ f[1] = g[1] /\ f[2] < g[2]

\* a key that the first row lacks and the third sampled row has is given
\* the last entry
C12_Witness ==
    /\ variant = "generator"
    /\ rowData.kind = "array"
    /\ Len(Sampled) = 5
    /\ Keys(Sampled[1]) = << "a", "c" >>
    /\ Keys(Sampled[3]) = << "a", "c", "b" >>
    /\ [j \in 1 .. Len(colDefs) |-> colDefs[j].field] = << "a", "c", "b" >>

\* the entry has the key with that value
Has(entry, key, val) == key \in DOMAIN entry /\ entry[key] = val

\* what an entry of the generator file's variant classifies its field as
Classification(entry) ==
    IF Has(entry, "cellEditor", "agCheckboxCellEditor") THEN "boolean"
    ELSE IF Has(entry, "filter", "agNumberColumnFilter") THEN "numeric"
    ELSE IF Has(entry, "filter", "agDateColumnFilter") THEN "temporal"
    ELSE IF Has(entry, "valueFormatter", "join") THEN "array"
    ELSE IF Has(entry, "valueFormatter", "json") THEN "object"
    ELSE IF Has(entry, "cellRenderer", "mailto") THEN "email"
    ELSE IF Has(entry, "cellRenderer", "link") THEN "url"
    ELSE IF Has(entry, "cellEditor", "agSelectCellEditor") THEN "enumerated"
    ELSE IF Has(entry, "cellEditor", "agTextCellEditor") THEN "text"
    ELSE "none"

\* the non-missing sampled values of a field
SampledValues(field) == FieldValues(Sampled, field)

\* the rules in their order, and whether the k-th holds of a field
RuleOrder ==
    << "boolean", "numeric", "temporal", "array", "object", "email", "url",
       "enumerated", "text" >>

RuleHolds(k, field, values) ==
    CASE k = 1 -> AllBoolean(values)
      [] k = 2 -> AllNumeric(values)
      [] k = 3 -> isDateField(field, values, dateEngine)
      [] k = 4 -> \E v \in Range(values) : v.t = "array"
      [] k = 5 -> \E v \in Range(values) : v.t \in {"object", "date"}
      [] k = 6 -> isEmailField(field, values)
      [] k = 7 -> isUrlField(field, values)
      [] k = 8 -> isEnumField(values)
      [] k = 9 -> TRUE

\* the first rule of the order that holds of a field
FirstRule(field, values) ==
    CHOOSE k \in 1 .. 9 :
        RuleHolds(k, field, values) /\ \A h \in 1 .. k - 1 : ~RuleHolds(h, field, values)

\* the entries of fields that have a non-missing sampled value
Classified == {j \in 1 .. Len(colDefs) : Len(SampledValues(colDefs[j].field)) > 0}

\* C13: in the generator file's variant a field with a non-missing sampled
\* value is classified by the earliest rule of the order boolean, numeric,
\* temporal, array, object, email, URL, enumerated, text whose test holds;
\* values that are all numbers make it numeric whatever its name, values
\* that are all true or false make it boolean.
C13_FirstMatchingRuleWins ==
    (variant = "generator" /\ ~EmptyInput) =>
        \A j \in Classified :
            LET field == colDefs[j].field
                values == SampledValues(field)
            IN  /\ Classification(colDefs[j]) = RuleOrder[FirstRule(field, values)]
                /\ (\A v \in Range(values) : v.t = "number")
                      => Classification(colDefs[j]) = "numeric"
                /\ (\A v \in Range(values) : v.t = "boolean")
                      => Classification(colDefs[j]) = "boolean"

\* numbers in a field named issueDate: numeric, though the date rule's name
\* hint holds
C13_Witness ==
    /\ variant = "generator"
    /\ rowData.kind = "array"
    /\ rowData.items = OneFieldRows("issueDate", << Num("5"), Num("5"), Num("0.5") >>)
    /\ RuleHolds(3, "issueDate", SampledValues("issueDate"))
    /\ Len(colDefs) = 1
    /\ Classification(colDefs[1]) = "numeric"

\* the numeric entries of fields whose name has a percentage keyword and no
\* currency keyword
PercentEntries ==
    {j \in Classified :
        /\ Classification(colDefs[j]) = "numeric"
        /\ NameHints(colDefs[j].field, {"rate", "percent", "yield", "ratio"})
        /\ ~NameHints(colDefs[j].field, {"price", "amount", "value", "cost", "salary", "budget"})}

\* C14: the percentage formatter of such a field divides by 100 when the
\* largest sampled value of the field exceeds 1 and by 1 otherwise, one
\* divisor for the field, decided from all its sampled values.
C14_PercentDividesBy100AboveOne ==
    (variant = "generator" /\ ~EmptyInput) =>
        \A j \in PercentEntries :
            colDefs[j].valueFormatter =
                IF \E v \in Range(SampledValues(colDefs[j].field)) : DecimalExceedsOne(v.s)
                THEN "percent/100"
                ELSE "percent/1"

\* String(v) of the values
Strings(values) == {v.s : v \in Range(values)}

\* String(v) of the non-missing sampled values of a field
SampledStrings(field) == Strings(SampledValues(field))

\* the first place of the string among the values
FirstPlace(values, str) ==
    LET places == {j \in 1 .. Len(values) : values[j].s = str}
    IN  CHOOSE j \in places : \A h \in places : j <= h

\* seq lists the distinct strings of the values, each once, in the order in
\* which they are first seen
IsFirstSeenList(seq, values) ==
    /\ Range(seq) = Strings(values)
    /\ \A a \in 1 .. Len(seq) - 1 : FirstPlace(values, seq[a]) < FirstPlace(values, seq[a + 1])

\* C15 as stated: a field is enumerated exactly when no earlier rule holds,
\* its distinct stringified sampled values are at most 10 and fewer than
\* half the sample size (the number of sampled rows); the editor's and the
\* filter's lists are then these values in first-seen order.
C15_EnumByHalfSampleSize ==
    (variant = "generator" /\ ~EmptyInput) =>
        \A j \in Classified :
            LET field == colDefs[j].field
                values == SampledValues(field)
                distinct == Cardinality(Strings(values))
            IN  /\ Classification(colDefs[j]) = "enumerated"
                      <=> /\ FirstRule(field, values) >= 8
                          /\ distinct <= 10
                          /\ 2 * distinct < Len(Sampled)
                /\ Classification(colDefs[j]) = "enumerated"
                      => /\ IsFirstSeenList(colDefs[j].cellEditorParams.values, values)
                         /\ colDefs[j].filterParams.values = colDefs[j].cellEditorParams.values

\* C15, amended: a field is enumerated exactly when no earlier rule holds,
\* its distinct stringified sampled values are at most 10 and fewer than
\* half the number of its non-missing sampled values; the editor's and the
\* filter's lists are then these values in first-seen order.
C15_EnumByHalfValueCount ==
    (variant = "generator" /\ ~EmptyInput) =>
        \A j \in Classified :
            LET field == colDefs[j].field
                values == SampledValues(field)
                distinct == Cardinality(Strings(values))
            IN  /\ Classification(colDefs[j]) = "enumerated"
                      <=> /\ FirstRule(field, values) >= 8
                          /\ distinct <= 10
                          /\ 2 * distinct < Len(values)
                /\ Classification(colDefs[j]) = "enumerated"
                      => /\ IsFirstSeenList(colDefs[j].cellEditorParams.values, values)
                         /\ colDefs[j].filterParams.values = colDefs[j].cellEditorParams.values

\* 100 rows, 10 of them sampled, status running through C, B, A
C15_Witness ==
    /\ variant = "generator"
    /\ rowData.kind = "array"
    /\ Len(rowData.items) = 100
    /\ Len(Sampled) = 10
    /\ SampledStrings("status") = {"A", "B", "C"}
    /\ Len(colDefs) = 1
    /\ Classification(colDefs[1]) = "enumerated"
    /\ colDefs[1].cellEditorParams.values = << "C", "B", "A" >>
    /\ colDefs[1].filterParams.values = << "C", "B", "A" >>

\* C16: in the generator file's variant a field whose non-missing sampled
\* values are each a boolean or one of the strings "true" and "false", in
\* any mix, is boolean: set filter, checkbox renderer, checkbox editor.
C16_BooleanValuesGiveCheckbox ==
    (variant = "generator" /\ ~EmptyInput) =>
        \A j \in Classified :
            (\A v \in Range(SampledValues(colDefs[j].field)) :
                \/ v.t = "boolean"
                \/ v = Str("true")
                \/ v = Str("false"))
            => /\ Has(colDefs[j], "filter", "agSetColumnFilter")
               /\ Has(colDefs[j], "cellRenderer", "agCheckboxCellRenderer")
               /\ Has(colDefs[j], "cellEditor", "agCheckboxCellEditor")

\* the list [{a: true}, {a: false}, {a: "true"}]
C16_Witness ==
    /\ variant = "generator"
    /\ rowData.kind = "array"
    /\ rowData.items = BooleanExample
    /\ Len(colDefs) = 1
    /\ colDefs[1].field = "a"
    /\ colDefs[1].filter = "agSetColumnFilter"
    /\ colDefs[1].cellRenderer = "agCheckboxCellRenderer"
    /\ colDefs[1].cellEditor = "agCheckboxCellEditor"

\* the lower-cased name contains one of the keywords
NameContains(field, keywords) ==
    \E word \in keywords : Includes(ToLowerCase(field), word)

\* C17: in the generator file's variant a numeric field whose lower-cased
\* name contains price, amount, value, cost, salary or budget is formatted
\* as currency; otherwise, if it contains rate, percent, yield or ratio, as
\* a percentage; otherwise as a plain number of at most 2 decimals.  The
\* currency keywords come first: priceRatio is currency.
C17_NumberFormatByName ==
    (variant = "generator" /\ ~EmptyInput) =>
        \A j \in Classified :
            Classification(colDefs[j]) = "numeric" =>
                /\ Has(colDefs[j], "type", "numericColumn")
                /\ "valueFormatter" \in DOMAIN colDefs[j]
                /\ IF NameContains(colDefs[j].field,
                                   {"price", "amount", "value", "cost", "salary", "budget"})
                   THEN colDefs[j].valueFormatter = "currency"
                   ELSE IF NameContains(colDefs[j].field, {"rate", "percent", "yield", "ratio"})
                        THEN colDefs[j].valueFormatter \in {"percent/1", "percent/100"}
                        ELSE colDefs[j].valueFormatter = "decimal"

\* numbers in a field named priceRatio
C17_Witness ==
    /\ variant = "generator"
    /\ rowData.kind = "array"
    /\ rowData.items = OneFieldRows("priceRatio", << Num("0.5"), Num("0.5"), Num("5") >>)
    /\ NameContains("priceRatio", {"ratio"})
    /\ Len(colDefs) = 1
    /\ Classification(colDefs[1]) = "numeric"
    /\ colDefs[1].valueFormatter = "currency"

\* the value is a Date instance or a string that looks like or parses as a
\* date
LooksLikeDate(v) ==
    \/ v.t = "date"
    \/ /\ v.t = "string"
       /\ \/ MatchesIsoDatePrefix(v.s)
          \/ MatchesSlashDate(v.s)
          \/ DateParses(v.s, dateEngine)

\* C18: in the generator file's variant a field that is neither boolean nor
\* numeric is temporal, with the date filter, exactly when its lower-cased
\* name contains date, time, created, updated, timestamp, birthday or dob,
\* or one of its sampled values is a Date instance or a string that looks
\* like or parses as a date; the name alone is enough.
C18_TemporalByNameOrValue ==
    (variant = "generator" /\ ~EmptyInput) =>
        \A j \in Classified :
            LET field == colDefs[j].field
                values == SampledValues(field)
            IN  Classification(colDefs[j]) \notin {"boolean", "numeric"} =>
                   (Has(colDefs[j], "filter", "agDateColumnFilter")
                      <=> \/ NameContains(field, {"date", "time", "created", "updated",
                                                  "timestamp", "birthday", "dob"})
                          \/ \E v \in Range(values) : LooksLikeDate(v))

\* a field named issueDate none of whose values is a date
C18_Witness ==
    /\ variant = "generator"
    /\ rowData.kind = "array"
    /\ rowData.items = OneFieldRows("issueDate", << Str("x"), Str("x"), Str("a@b.co") >>)
    /\ \A v \in Range(SampledValues("issueDate")) : ~LooksLikeDate(v)
    /\ Len(colDefs) = 1
    /\ colDefs[1].filter = "agDateColumnFilter"

\* the entries of fields all of whose sampled values are null or undefined
Unclassified == {j \in 1 .. Len(colDefs) : Len(SampledValues(colDefs[j].field)) = 0}

\* C19: in the generator file's variant a field whose value is null or
\* undefined in every sampled row has one entry, made of the field key, the
\* derived label and the text filter and of nothing else: no formatter, no
\* editor, no sortable or resizable flag, nothing that inferFieldType would
\* give for an empty value list.
C19_AllMissingGivesMinimalEntry ==
    (variant = "generator" /\ ~EmptyInput) =>
        /\ \A j \in Unclassified :
              /\ DOMAIN colDefs[j] = {"field", "headerName", "filter"}
              /\ colDefs[j].headerName = formatHeaderName(colDefs[j].field)
              /\ colDefs[j].filter = "agTextColumnFilter"
              /\ \A k \in 1 .. Len(colDefs) : colDefs[k].field = colDefs[j].field => k = j
        /\ \A key \in KeysOf(Sampled) :
              \E j \in 1 .. Len(colDefs) : colDefs[j].field = key

\* eight rows, c null in each of the five sampled
C19_Witness ==
    /\ variant = "generator"
    /\ rowData.kind = "array"
    /\ Len(rowData.items) = 8
    /\ \A j \in 1 .. Len(Sampled) : Lookup(Sampled[j], "c") = NullValue
    /\ \E j \in Unclassified :
          colDefs[j] = [field |-> "c", headerName |-> "C", filter |-> "agTextColumnFilter"]

NoStraySpace(str) ==
    /\ Len(str) > 0 => CharAt(str, 1) # " " /\ CharAt(str, Len(str)) # " "
    /\ \A k \in 1 .. Len(str) - 1 : ~(CharAt(str, k) = " " /\ CharAt(str, k + 1) = " ")

\* underscores to spaces, a space before each uppercase letter, the first
\* character capitalized, runs of whitespace collapsed, the ends trimmed
LabelBySteps(field) ==
    Trim(CollapseSpaces(CapitalizeFirstWordChar(SpaceBeforeUpper(ReplaceUnderscores(field)))))

\* C21: the label of every entry is its field name with underscores replaced
\* by spaces, a space before each uppercase letter, the first character
\* capitalized, whitespace collapsed and trimmed, whatever the field is
\* classified as: instrumentType gives Instrument Type, issue_date gives
\* Issue date, total_return_1y gives Total return 1y; no label has a
\* leading, trailing or doubled space.
C21_LabelFromFieldName ==
    (variant # "none" /\ ~EmptyInput) =>
        \A j \in 1 .. Len(colDefs) :
            /\ colDefs[j].headerName = LabelBySteps(colDefs[j].field)
            /\ NoStraySpace(colDefs[j].headerName)
            /\ colDefs[j].field = "instrumentType" => colDefs[j].headerName = "Instrument Type"
            /\ colDefs[j].field = "issue_date" => colDefs[j].headerName = "Issue date"
            /\ colDefs[j].field = "total_return_1y" => colDefs[j].headerName = "Total return 1y"

\* the field is caught by the boolean, the numeric or the temporal rule
CaughtEarlier(field, values) ==
    \E k \in 1 .. 3 : RuleHolds(k, field, values)

\* C22: in the generator file's variant, a field that the boolean, numeric
\* and temporal rules do not catch is classified array (formatter: join with
\* ", ") when some sampled value is an array, also when plain objects are
\* sampled with it; otherwise it is classified object (formatter: JSON) when
\* some sampled value is a non-null object that is no array.
C22_ArrayBeforeObject ==
    (variant = "generator" /\ ~EmptyInput) =>
        \A j \in Classified :
            LET field == colDefs[j].field
                values == SampledValues(field)
                arrays == {k \in 1 .. Len(values) : values[k].t = "array"}
                objects == {k \in 1 .. Len(values) : values[k].t \in {"object", "date"}}
            IN  ~CaughtEarlier(field, values) =>
                    /\ arrays # {} =>
                          /\ Classification(colDefs[j]) = "array"
                          /\ Has(colDefs[j], "valueFormatter", "join")
                    /\ (arrays = {} /\ objects # {}) =>
                          /\ Classification(colDefs[j]) = "object"
                          /\ Has(colDefs[j], "valueFormatter", "json")
                    /\ (arrays = {} /\ objects = {}) =>
                          Classification(colDefs[j]) \notin {"array", "object"}

\* a field sampled with two plain objects and an array is classified array
C22_Witness ==
    /\ variant = "generator"
    /\ rowData.kind = "array"
    /\ rowData.items = OneFieldRows("status", << Obj, Obj, Arr("1,2") >>)
    /\ Len(colDefs) = 1
    /\ Classification(colDefs[1]) = "array"

----------------------------------------------------------------------------
(* Further claims about the generator, checked under Spec *)

\* C23: every generated record has couponRate within [0.5, 8] and ytm within
\* [0.1, 10] (both in thousandths here), quantity a multiple of 1,000 within
\* [1,000, 1,000,000], and instrumentType, currency, country and creditRating
\* each from its catalog.
C23_FieldsWithinRanges ==
    \A r \in Generated :
        /\ r.couponRate >= 500 /\ r.couponRate <= 8000
        /\ r.ytm >= 100 /\ r.ytm <= 10000
        /\ r.quantity % 1000 = 0
        /\ r.quantity >= 1000 /\ r.quantity <= 1000000
        /\ r.instrumentType \in Range(instrumentTypes)
        /\ r.currency \in Range(currencies)
        /\ r.country \in Range(countries)
        /\ r.creditRating \in Range(creditRatings)

\* C23 witness: a full returned list with a record of the least quantity
C23_Witness ==
    /\ outcome = "returned"
    /\ Len(result) = MaxRows
    /\ \E k \in DOMAIN result : result[k].quantity = 1000

\* C30: in every generated record yieldToWorst <= ytm, spreadDuration <=
\* duration, expectedShortfall >= valueatrisk95, and issuerCountry = country,
\* issuerIndustry = sector, tradeDate = lastTradeDate.
C30_RelativeFieldsRespectBounds ==
    \A r \in Generated :
        /\ r.yieldToWorst <= r.ytm
        /\ r.spreadDuration <= r.duration
        /\ r.expectedShortfall >= r.valueatrisk95
        /\ r.issuerCountry = r.country
        /\ r.issuerIndustry = r.sector
        /\ r.tradeDate = r.lastTradeDate

\* C30 witness: a returned record whose yieldToWorst is its ytm, with a
\* spreadDuration and an expectedShortfall off their bounds
C30_Witness ==
    /\ outcome = "returned"
    /\ \E k \in DOMAIN result :
          /\ result[k].yieldToWorst = result[k].ytm
          /\ result[k].spreadDuration < result[k].duration
          /\ result[k].expectedShortfall > result[k].valueatrisk95

----------------------------------------------------------------------------
(* Claims about the application shell, checked under SpecApp *)

\* a step that calls generateData
RequestStep == requests' = requests + 1

\* a step in which generateFixedIncomeData runs
GeneratorStep == pc = "idle" /\ pc' = "done"

\* the step that ends a timer callback
EndStep == pc = "done" /\ pc' = "idle"

\* C24: a generation request never runs the generator in its own step: the
\* step sets loading to true and registers one timer for the count
\* requested, leaving the generator untouched; the generator runs only in a
\* later step that takes a registered timer off the queue, with that
\* timer's count.
C24_GeneratorRunsInLaterCallback ==
    [][ /\ RequestStep =>
              /\ loading'
              /\ ~GeneratorStep
              /\ UNCHANGED genVars
              /\ timers' = Append(timers, timers'[Len(timers')])
              /\ timers'[Len(timers')].count =
                    IF timers'[Len(timers')].by = "mount" THEN InitialRowCount ELSE rowCount
        /\ GeneratorStep =>
              /\ ~RequestStep
              /\ timers # << >>
              /\ timers' = Tail(timers)
              /\ numRows' = 2 * Head(timers).count ]_vars

\* a request has been made and its generator run has not started: loading is
\* true, the timer waits, nothing is generated yet
C24_Witness ==
    /\ requests = 1
    /\ loading
    /\ Len(timers) = 1
    /\ pc = "idle"
    /\ outcome = "none"

C26_DatasetReplacedWhole ==
    [][ /\ (EndStep /\ outcome = "returned") =>
              /\ heldRowData' = result
              /\ 2 * Len(heldRowData') = numRows
              /\ \A k \in DOMAIN heldRowData' : heldRowData'[k].id = k
        /\ GeneratorStep => numRows' = 2 * Head(timers).count ]_vars

\* a request for 1 record has completed after a request for 2: the held
\* dataset is the 1 record returned
C26_Witness ==
    /\ requests = 2
    /\ pc = "idle"
    /\ timers = << >>
    /\ outcome = "returned"
    /\ numRows = 2
    /\ Len(heldRowData) = 1
    /\ heldRowData = result

\* C29: no button-triggered request is issued while an earlier request is
\* pending, so a timer started by the button is the only timer outstanding
\* and no callback is running while it waits; at most one timer started by
\* the button is outstanding.
C29_NoOverlappingButtonRequest ==
    /\ \A k \in DOMAIN timers :
          timers[k].by = "button" => (Len(timers) = 1 /\ pc = "idle")
    /\ Cardinality({k \in DOMAIN timers : timers[k].by = "button"}) <= 1

----------------------------------------------------------------------------
(* Claims about repeated inference, checked under SpecInferAgain *)

----------------------------------------------------------------------------
(* Claims about the generated records as grid rows, checked under           *)
(* SpecPipeline                                                             *)

\* the call/put date and price fields
OptionalFields == {"nextCallDate", "nextPutDate", "callPrice", "putPrice"}

\* the entries of optional fields that are null in every sampled row
NullOptional ==
    {j \in 1 .. Len(colDefs) :
        /\ colDefs[j].field \in OptionalFields
        /\ Len(SampledValues(colDefs[j].field)) = 0}

============================================================================
